---- MODULE Spec2Model ----
(***************************************************************************)
(* pyarallel: the @parallel decorator (pyarallel/core.py).  The model     *)
(* follows the wrapper statement by statement: call-shape classification, *)
(* the weak-valued executor cache, the per-call TokenBucket, the          *)
(* submission loop, the pool's workers and the collection loop.           *)
(* Time is counted in milliseconds (ticks of time.time()).                *)
(***************************************************************************)
EXTENDS Integers, Sequences, FiniteSets, TLC

\* ---------------------------------------------------------------- bounds
MaxLen == 2        \* longest item list passed to a batch call
MaxCalls == 2      \* calls one caller thread makes
MaxTime == 4       \* last clock reading (ms)
MaxOps == 2        \* TokenBucket operations one thread makes on a shared bucket
MaxManagers == 2   \* ConfigManager objects created (one more after each reset)

\* ------------------------------------------------------------- constants
TicksPerSecond == 1000   \* time.sleep(max(0.001, ...)): one tick is 0.001 s
MinSleep == 1            \* the 0.001 s minimum sleep, in ticks
WarnWorkers == 100       \* threshold of the "high number of workers" warning

Threads == {"t1", "t2"}
Fns == {"f", "g"}
ItemValues == {1, 2, 3}
Raises == {3}            \* the items on which the user's function raises

Max(a, b) == IF a >= b THEN a ELSE b

\* ---------------------------------------------------------------- values
\* A Python value: its class name, its __name__ when it is a class, payload.
IntVal(x) == [type |-> "int", name |-> "", v |-> <<x>>]
ListVal(s) == [type |-> "list", name |-> "", v |-> s]
TupleVal(s) == [type |-> "tuple", name |-> "", v |-> s]
StrVal(s) == [type |-> "str", name |-> "", v |-> s]
\* A float: a number of seconds, or float("nan").
FloatVal(x) == [type |-> "float", name |-> "", v |-> <<x>>]
NaN == [type |-> "float", name |-> "nan", v |-> <<>>]
BytesVal(s) == [type |-> "bytes", name |-> "", v |-> s]

\* An instance of a class (its __class__.__name__ is cls), and a class object.
InstanceVal(cls) == [type |-> cls, name |-> "", v |-> <<>>]
ClassVal(cls) == [type |-> "type", name |-> cls, v |-> <<>>]

IsSequence(x) == x.type \in {"list", "tuple", "str", "bytes"}

\* isinstance(x, (list, tuple))
IsListOrTuple(x) == x.type \in {"list", "tuple"}

\* The user's function, applied to its positional arguments: it raises when an
\* argument is one of the items it fails on, and otherwise returns a value
\* that determines the arguments it was given.
func(args) ==
    IF \E n \in DOMAIN args : args[n].type = "int" /\ args[n].v[1] \in Raises
    THEN [exc |-> "TaskError", val |-> args]
    ELSE [exc |-> "None", val |-> args]

NoResult == [exc |-> "unset", val |-> <<>>]     \* a None slot of results
NoOutcome == [kind |-> "none", results |-> <<>>, exc |-> "None", context |-> "None"]
Returned(rs) == [kind |-> "return", results |-> rs, exc |-> "None", context |-> "None"]
Raised(e, ctx) == [kind |-> "raise", results |-> <<>>, exc |-> e, context |-> ctx]

RECURSIVE SeqsUpTo(_, _)
SeqsUpTo(S, n) ==
    IF n = 0 THEN {<<>>}
    ELSE LET shorter == SeqsUpTo(S, n - 1)
         IN shorter \cup {Append(s, x) : s \in {q \in shorter : Len(q) = n - 1}, x \in S}

VARIABLES
    now,        \* time.time()
    config,     \* the ConfigManager objects created so far, ConfigManager._instance and _lock
    wrappers,   \* per decorated function: the decorator's closure, or NoWrapper
    cache,      \* _EXECUTOR_CACHE: key -> pool
    pools,      \* every executor constructed so far
    buckets,    \* every TokenBucket constructed so far
    done,       \* the invocations that have completed, in order of completion
    grants,     \* the permits granted so far, in order
    th          \* the frame of each caller thread

vars == <<now, config, wrappers, cache, pools, buckets, done, grants, th>>

\* ----------------------------------------------------------- configuration
\* PyarallelConfig() with its nested ExecutionConfig(), as the dataclasses
\* default them.
DefaultConfig ==
    [max_workers |-> 4, timeout |-> FloatVal(30),
     execution |-> [max_workers |-> 4, timeout |-> FloatVal(30), default_max_workers |-> 4,
                    default_executor_type |-> "thread", default_batch_size |-> 10],
     error_handling |-> [retry_count |-> 3]]

\* An update_config argument: a dictionary whose keys may be absent (<<>>);
\* the value under "execution" is a dictionary again.
ExecutionUpdate(mw, dmw, det, dbs) ==
    [max_workers |-> mw, default_max_workers |-> dmw, default_executor_type |-> det,
     default_batch_size |-> dbs, timeout |-> <<>>]
Updates(mw, execution) ==
    [max_workers |-> mw, execution |-> execution, error_handling |-> <<>>,
     timeout |-> <<>>]

\* update_config({"timeout": x}) and update_config({"execution": {"timeout": x}}).
TimeoutUpdate(x) ==
    [max_workers |-> <<>>, execution |-> <<>>, error_handling |-> <<>>,
     timeout |-> <<x>>]
ExecutionTimeoutUpdate(x) ==
    [max_workers |-> <<>>, error_handling |-> <<>>, timeout |-> <<>>,
     execution |-> <<[max_workers |-> <<>>, default_max_workers |-> <<>>,
                      default_executor_type |-> <<>>, default_batch_size |-> <<>>,
                      timeout |-> <<x>>]>>]

\* update_config({"error_handling": eh}), eh a dictionary.
ErrorHandlingUpdate(eh) ==
    [max_workers |-> <<>>, execution |-> <<>>, error_handling |-> <<eh>>,
     timeout |-> <<>>]

\* config_manager.py lines 81-84: the keys under "execution" are moved to the
\* top level of the update (over a top-level key of the same name) and
\* "execution" is deleted.
Flatten(u) ==
    LET ex == IF u.execution = <<>> THEN ExecutionUpdate(<<>>, <<>>, <<>>, <<>>)
              ELSE u.execution[1]
    IN [max_workers |-> IF ex.max_workers # <<>> THEN ex.max_workers ELSE u.max_workers,
        timeout |-> IF ex.timeout # <<>> THEN ex.timeout ELSE u.timeout,
        default_max_workers |-> ex.default_max_workers,
        default_executor_type |-> ex.default_executor_type,
        default_batch_size |-> ex.default_batch_size,
        error_handling |-> u.error_handling]

\* Lines 87-88: a max_workers below 1 becomes 1.
ClampWorkers(flat) ==
    [flat EXCEPT !.max_workers = IF @ # <<>> /\ @[1] < 1 THEN <<1>> ELSE @]

\* _deep_merge on two dictionaries of plain values (the recursive call of line
\* 106): the keys of the update are set over a copy of the base.
MergeDict(base, upd) ==
    [k \in DOMAIN base \cup DOMAIN upd |-> IF k \in DOMAIN upd THEN upd[k] ELSE base[k]]

\* _deep_merge(current_config, updates), lines 93-109: every key of the update
\* is set at the top level of the result, a dictionary over a dictionary by
\* the recursive merge; the dictionary under "execution" is the current one,
\* as the update has no such key any more.
_deep_merge(base, flat) ==
    [max_workers |-> IF flat.max_workers # <<>> THEN flat.max_workers[1] ELSE base.max_workers,
     timeout |-> IF flat.timeout # <<>> THEN flat.timeout[1] ELSE base.timeout,
     execution |-> base.execution,
     error_handling |-> IF flat.error_handling # <<>>
                        THEN MergeDict(base.error_handling, flat.error_handling[1])
                        ELSE base.error_handling,
     default_max_workers |-> flat.default_max_workers,
     default_executor_type |-> flat.default_executor_type,
     default_batch_size |-> flat.default_batch_size]

\* config.py lines 27-36: float(value), refused with ValueError when value is
\* no number or is below 0.  float("nan") is a float and is not below 0.
_ensure_non_negative_float(value) ==
    IF value.type \notin {"int", "float"}
    THEN [exc |-> "ValueError", val |-> value]
    ELSE IF value.name = "nan" THEN [exc |-> "None", val |-> NaN]
    ELSE IF value.v[1] < 0 THEN [exc |-> "ValueError", val |-> value]
    ELSE [exc |-> "None", val |-> FloatVal(value.v[1])]

\* PyarallelConfig.from_dict and __post_init__ (config.py lines 121-149,
\* 188-207): max_workers, timeout and execution are read from the dictionary,
\* values are raised to their minimum, and execution.max_workers and
\* execution.timeout follow the top-level values.
from_dict(d) ==
    LET ex == d.execution
        mw == Max(d.max_workers, 1)
        timeout == _ensure_non_negative_float(d.timeout).val
    IN [max_workers |-> mw, timeout |-> timeout,
        execution |-> [max_workers |-> mw, timeout |-> timeout,
                       default_max_workers |-> Max(ex.default_max_workers, 1),
                       default_executor_type |-> ex.default_executor_type,
                       default_batch_size |-> Max(ex.default_batch_size, 1)],
        error_handling |-> d.error_handling]

\* ConfigManager.update_config, lines 78-91, on the configuration c of a manager.
update_config(c, u) == from_dict(_deep_merge(c, ClampWorkers(Flatten(u))))

\* The exception that leaves update_config(u), or "None": line 123 of
\* config.py validates the merged timeout.
update_config_raises(c, u) ==
    _ensure_non_negative_float(_deep_merge(c, ClampWorkers(Flatten(u))).timeout).exc

\* ConfigManager.__new__ / get_instance, lines 29-50: the singleton, created
\* with the default configuration (no PYARALLEL_* variable is set) when
\* ConfigManager._instance is None.
get_instance(cm) ==
    IF cm.instance # 0 THEN cm
    ELSE [cm EXCEPT !.managers = Append(@, DefaultConfig),
                    !.instance = Len(cm.managers) + 1]

\* ConfigManager.get_instance().get_config()
get_config(cm) == get_instance(cm).managers[get_instance(cm).instance]

\* ---------------------------------------------------------------- RateLimit
\* The rate_limit argument of @parallel: absent, a number, a (count, interval)
\* tuple or list, a RateLimit object, or something else (form "other").
NoRate == [form |-> "none", count |-> 0, interval |-> "second"]
NumberRate(n) == [form |-> "number", count |-> n, interval |-> "second"]
TupleRate(n, unit) == [form |-> "tuple", count |-> n, interval |-> unit]
ObjectRate(n, unit) == [form |-> "RateLimit", count |-> n, interval |-> unit]

multiplier(interval) ==
    CASE interval = "second" -> 1
      [] interval = "minute" -> 60
      [] interval = "hour" -> 3600

\* RateLimit.per_second: count / multiplier[interval] (the inputs used divide evenly).
per_second(rl) == rl.count \div multiplier(rl.interval)

\* 1 / self.rate seconds, in ticks; the caller has checked rate # 0.
Period(rate) == TicksPerSecond \div rate

\* ---------------------------------------------------------------- decorator
\* Optional arguments are sequences of length <= 1: <<>> is None.
DecoArgs(w, b, r, e, p) ==
    [max_workers |-> w, batch_size |-> b, rate_limit |-> r, executor_type |-> e,
     prewarm |-> p]

NoWrapper ==
    [decorated |-> FALSE, workers |-> 0, batch |-> 0, exec_type |-> "thread",
     rate_limit |-> NoRate, prewarm |-> FALSE, qualname |-> <<>>, warned |-> FALSE]

decoratorGlobalFirst(a, qualname, cfg) ==
    [decorated |-> TRUE, workers |-> cfg.execution.default_max_workers,
     batch |-> cfg.execution.default_batch_size,
     exec_type |-> cfg.execution.default_executor_type,
     rate_limit |-> a.rate_limit, prewarm |-> a.prewarm, qualname |-> qualname,
     warned |-> FALSE]

\* parallel(...)(func): the settings are resolved here, once, and kept in the
\* closure of the wrapper.  No argument is validated.
decorator(a, qualname, cfg) ==
    LET workers == IF a.max_workers # <<>> THEN a.max_workers[1]
                   ELSE cfg.execution.default_max_workers
        batch == IF a.batch_size # <<>> THEN a.batch_size[1]
                 ELSE cfg.execution.default_batch_size
        exec_type == IF a.executor_type # <<>> THEN a.executor_type[1]
                     ELSE cfg.execution.default_executor_type
    IN [decorated |-> TRUE, workers |-> workers, batch |-> batch,
        exec_type |-> exec_type, rate_limit |-> a.rate_limit, prewarm |-> a.prewarm,
        qualname |-> qualname,
        warned |-> \/ (workers # 0 /\ workers > WarnWorkers)
                   \/ (exec_type = "process" /\ a.batch_size # <<>> /\ a.batch_size[1] < 2)]

\* ------------------------------------------------------------------- frames
\* A task (or a direct invocation, i = 0, or a warm-up no-op): the pool it was
\* submitted to, the call (t, c) and index i it belongs to, the arguments func
\* is applied to, and the clock reading at submission.  A frame's field inside
\* holds the work item whose body made the call, when the calling thread is a
\* pool worker.
Task(p, t, c, i, noop, call, at) ==
    [pool |-> p, t |-> t, c |-> c, i |-> i, noop |-> noop, call |-> call, at |-> at]

IdleFrame(c, ops) ==
    [pc |-> "idle", c |-> c, fn |-> "f", args |-> <<>>, ix |-> 0, executor |-> 0,
     limiter |-> 0, futures |-> <<>>, results |-> <<>>, idx |-> 0, k |-> 0,
     wake |-> 0, direct |-> FALSE, ops |-> ops, got |-> "none",
     outcome |-> NoOutcome, t0 |-> 0, t1 |-> 0, manager |-> 0, inside |-> <<>>]

items(fr) == fr.args[fr.ix + 1].v
other_args(fr) == SubSeq(fr.args, fr.ix + 2, Len(fr.args))
Key(w) == <<w.exec_type, w.workers>>
CacheGet(key) == IF key \in DOMAIN cache THEN cache[key] ELSE 0

\* Lines 263-282: the index of the item argument.  A dotted __qualname__ names
\* the declaring class first; the first argument is taken for the receiver when
\* its class, or it itself being a class, has that name.
items_arg_index(w, args) ==
    IF args # <<>> /\ Len(w.qualname) > 1
       /\ (args[1].type = w.qualname[1]
           \/ (args[1].type = "type" /\ args[1].name = w.qualname[1]))
    THEN 1 ELSE 0

HandlerSwallow(fr, e) == Returned(fr.results)

\* Lines 337-341: the handler formats idx into its log line before re-raising;
\* idx is bound only once the collection loop has started.
Handler(fr, e) ==
    IF fr.idx = 0 THEN Raised("UnboundLocalError", e) ELSE Raised(e, "None")

LoopHeadNoPermit(fr) ==
    IF Len(fr.futures) < Len(items(fr))
    THEN [fr EXCEPT !.pc = "submit"]
    ELSE [fr EXCEPT !.pc = "collect",
                    !.results = [n \in 1..Len(items(fr)) |-> NoResult]]

LoopHeadBatched(fr) ==
    IF Len(fr.futures) < Len(items(fr)) /\ Len(fr.futures) < wrappers[fr.fn].batch
    THEN [fr EXCEPT !.pc = IF fr.limiter # 0 THEN "wft_lock" ELSE "submit"]
    ELSE [fr EXCEPT !.pc = "collect",
                    !.results = [n \in 1..Len(items(fr)) |-> NoResult]]

\* A submission loop that awaits each future as soon as it is submitted.
LoopHeadInterleaved(fr) ==
    [fr EXCEPT !.pc = "collect",
               !.results = [n \in 1..Len(items(fr)) |-> NoResult]]

\* The head of the submission loop (lines 316-317), and line 331 once every
\* item has been submitted.
LoopHead(fr) ==
    IF Len(fr.futures) < Len(items(fr))
    THEN [fr EXCEPT !.pc = IF fr.limiter # 0 THEN "wft_lock" ELSE "submit"]
    ELSE [fr EXCEPT !.pc = "collect",
                    !.results = [n \in 1..Len(items(fr)) |-> NoResult]]

Init ==
    /\ now = 0
    /\ config = [managers |-> <<DefaultConfig>>, instance |-> 1, lock |-> "", unset |-> {}]
    /\ wrappers = [fn \in Fns |-> NoWrapper]
    /\ cache = <<>>
    /\ pools = <<>>
    /\ buckets = <<>>
    /\ done = <<>>
    /\ grants = <<>>
    /\ th = [t \in Threads |-> IdleFrame(0, 0)]

\* ------------------------------------------------------------------ actions
\* @parallel(...) applied to a function whose __qualname__ is qualname.
Decorate(fn, a, qualname) ==
    /\ ~wrappers[fn].decorated
    /\ config' = get_instance(config)
    /\ wrappers' = [wrappers EXCEPT ![fn] = decorator(a, qualname, get_config(config))]
    /\ UNCHANGED <<now, cache, pools, buckets, done, grants, th>>

\* manager.update_config(u), on the module-level handle pyarallel.config (the
\* manager created at import, __init__.py line 7) or on
\* ConfigManager.get_instance().
UpdateConfig(m, u) ==
    LET cm == IF m = 0 THEN get_instance(config) ELSE config
        h == IF m = 0 THEN cm.instance ELSE m
    IN /\ m \in {0} \cup DOMAIN config.managers
       /\ config.lock = ""             \* with self._lock
       /\ h \notin config.unset        \* self._config is a PyarallelConfig
       /\ config' = IF update_config_raises(cm.managers[h], u) = "None"
                    THEN [cm EXCEPT !.managers[h] = update_config(cm.managers[h], u)]
                    ELSE cm            \* line 91 is not reached
       /\ UNCHANGED <<now, wrappers, cache, pools, buckets, done, grants, th>>

\* manager.reset(), lines 117-119: the manager's configuration is the default
\* one again and ConfigManager._instance is cleared.
Reset(m) ==
    LET cm == IF m = 0 THEN get_instance(config) ELSE config
        h == IF m = 0 THEN cm.instance ELSE m
    IN /\ m \in {0} \cup DOMAIN config.managers
       /\ Len(cm.managers) < MaxManagers
       /\ config.lock = ""             \* with self._lock
       /\ config' = [cm EXCEPT !.managers[h] = DefaultConfig, !.instance = 0,
                               !.unset = @ \ {h}]
       /\ UNCHANGED <<now, wrappers, cache, pools, buckets, done, grants, th>>

\* ConfigManager.__new__ statement by statement, for threads that call
\* ConfigManager() / get_instance() concurrently.
\* Line 30, outside the lock: "if not cls._instance".
NewTest(t) ==
    LET fr == th[t]
    IN /\ fr.pc = "idle"
       /\ th' = [th EXCEPT ![t] =
             [fr EXCEPT !.pc = IF config.instance # 0 THEN "new_return" ELSE "new_lock"]]
       /\ UNCHANGED <<now, config, wrappers, cache, pools, buckets, done, grants>>

\* Line 31: with cls._lock.
NewLock(t) ==
    /\ th[t].pc = "new_lock"
    /\ config.lock = ""
    /\ config' = [config EXCEPT !.lock = t]
    /\ th' = [th EXCEPT ![t].pc = "new_retest"]
    /\ UNCHANGED <<now, wrappers, cache, pools, buckets, done, grants>>

\* Lines 32-33: the second test, and cls._instance = super().__new__(cls).  The
\* new object has no _config of its own yet: its _config is the class
\* attribute, None.
NewAlloc(t) ==
    /\ th[t].pc = "new_retest"
    /\ IF config.instance # 0
       THEN /\ config' = config
            /\ th' = [th EXCEPT ![t].pc = "new_unlock"]
       ELSE /\ config' = [config EXCEPT !.managers = Append(@, DefaultConfig),
                                        !.instance = Len(config.managers) + 1,
                                        !.unset = @ \cup {Len(config.managers) + 1}]
            /\ th' = [th EXCEPT ![t].pc = "new_init"]
    /\ UNCHANGED <<now, wrappers, cache, pools, buckets, done, grants>>

\* Lines 35-48: the default configuration is built (no PYARALLEL_* variable is
\* set) and assigned to cls._instance._config.
NewInit(t) ==
    /\ th[t].pc = "new_init"
    /\ config' = [config EXCEPT !.unset = @ \ {config.instance}]
    /\ th' = [th EXCEPT ![t].pc = "new_unlock"]
    /\ UNCHANGED <<now, wrappers, cache, pools, buckets, done, grants>>

\* The end of the with block: the lock is released.
NewUnlock(t) ==
    /\ th[t].pc = "new_unlock"
    /\ config' = [config EXCEPT !.lock = ""]
    /\ th' = [th EXCEPT ![t].pc = "new_return"]
    /\ UNCHANGED <<now, wrappers, cache, pools, buckets, done, grants>>

\* Line 50: return cls._instance (0 is None, after a reset in between).
NewReturn(t) ==
    /\ th[t].pc = "new_return"
    /\ th' = [th EXCEPT ![t].pc = "has_instance", ![t].manager = config.instance]
    /\ UNCHANGED <<now, config, wrappers, cache, pools, buckets, done, grants>>

\* get_config() on the manager the thread was handed, and the use decorator
\* makes of it (core.py lines 225-229): config.execution on None raises.
GetConfig(t) ==
    LET fr == th[t]
    IN /\ fr.pc = "has_instance"
       /\ th' = [th EXCEPT ![t] =
             [fr EXCEPT !.pc = "done",
                        !.outcome = IF fr.manager = 0 \/ fr.manager \in config.unset
                                    THEN Raised("AttributeError", "None")
                                    ELSE Returned(<<>>)]]
       /\ UNCHANGED <<now, config, wrappers, cache, pools, buckets, done, grants>>

\* A wrapper that fetches the pool before it looks at its item argument.
CallPoolFirst(t, fn, args) ==
    LET fr == th[t]
        c == fr.c + 1
        w == wrappers[fn]
        ix == items_arg_index(w, args)
        single_item_args ==
            IF ix # 0 THEN <<args[1]>> \o SubSeq(args, ix + 1, Len(args))
            ELSE SubSeq(args, ix + 1, Len(args))
        r == func(single_item_args)
        entered == [IdleFrame(c, fr.ops) EXCEPT !.fn = fn, !.args = args, !.ix = ix,
                                                !.t0 = now]
    IN /\ fr.pc = "idle"
       /\ w.decorated
       /\ fr.c < MaxCalls
       /\ IF Len(args) <= ix \/ ~IsListOrTuple(args[ix + 1])
          THEN /\ th' = [th EXCEPT ![t] =
                    [entered EXCEPT !.pc = "done", !.t1 = now,
                        !.outcome = IF r.exc = "None" THEN Returned(<<r>>)
                                    ELSE Raised(r.exc, "None")]]
               /\ done' = Append(done, Task(0, t, c, 0, FALSE, single_item_args, now))
               /\ pools' = IF CacheGet(Key(w)) = 0
                           THEN Append(pools, [kind |-> w.exec_type,
                                               max_workers |-> w.workers,
                                               shutdown |-> FALSE,
                                               queue |-> <<>>, running |-> {}])
                           ELSE pools
               /\ cache' = IF CacheGet(Key(w)) = 0
                           THEN [x \in DOMAIN cache \cup {Key(w)} |->
                                    IF x = Key(w) THEN Len(pools) + 1 ELSE cache[x]]
                           ELSE cache
          ELSE /\ th' = [th EXCEPT ![t] = [entered EXCEPT !.pc = "get_executor"]]
               /\ done' = done
               /\ UNCHANGED <<pools, cache>>
       /\ UNCHANGED <<now, config, wrappers, buckets, grants>>

\* wrapper(*args), lines 259-297.  A call whose item argument is no list or
\* tuple invokes func in the calling thread and wraps what it returns.
Call(t, fn, args) ==
    LET fr == th[t]
        c == fr.c + 1
        ix == items_arg_index(wrappers[fn], args)
        single_item_args ==
            IF ix # 0 THEN <<args[1]>> \o SubSeq(args, ix + 1, Len(args))
            ELSE SubSeq(args, ix + 1, Len(args))
        r == func(single_item_args)
        entered == [IdleFrame(c, fr.ops) EXCEPT !.fn = fn, !.args = args, !.ix = ix,
                                                !.t0 = now]
    IN /\ fr.pc = "idle"
       /\ wrappers[fn].decorated
       /\ fr.c < MaxCalls
       /\ IF Len(args) <= ix \/ ~IsListOrTuple(args[ix + 1])
          THEN /\ th' = [th EXCEPT ![t] =
                    [entered EXCEPT !.pc = "done", !.t1 = now,
                        !.outcome = IF r.exc = "None" THEN Returned(<<r>>)
                                    ELSE Raised(r.exc, "None")]]
               /\ done' = Append(done, Task(0, t, c, 0, FALSE, single_item_args, now))
          ELSE /\ th' = [th EXCEPT ![t] = [entered EXCEPT !.pc = "get_executor"]]
               /\ done' = done
       /\ UNCHANGED <<now, config, wrappers, cache, pools, buckets, grants>>

\* wrapper(*args) called by the body of a work item that a worker of some pool
\* is running: the same wrapper code, with the worker thread t as its caller.
TaskCalls(t, task, fn, args) ==
    LET fr == th[t]
        c == fr.c + 1
        ix == items_arg_index(wrappers[fn], args)
        single_item_args ==
            IF ix # 0 THEN <<args[1]>> \o SubSeq(args, ix + 1, Len(args))
            ELSE SubSeq(args, ix + 1, Len(args))
        r == func(single_item_args)
        entered == [IdleFrame(c, fr.ops) EXCEPT !.fn = fn, !.args = args, !.ix = ix,
                                                !.t0 = now, !.inside = <<task>>]
    IN /\ fr.pc = "idle"
       /\ wrappers[fn].decorated
       /\ fr.c < MaxCalls
       /\ ~task.noop
       /\ task \in pools[task.pool].running
       /\ \A u \in Threads : th[u].inside # <<task>>
       /\ IF Len(args) <= ix \/ ~IsListOrTuple(args[ix + 1])
          THEN /\ th' = [th EXCEPT ![t] =
                    [entered EXCEPT !.pc = "done", !.t1 = now,
                        !.outcome = IF r.exc = "None" THEN Returned(<<r>>)
                                    ELSE Raised(r.exc, "None")]]
               /\ done' = Append(done, Task(0, t, c, 0, FALSE, single_item_args, now))
          ELSE /\ th' = [th EXCEPT ![t] = [entered EXCEPT !.pc = "get_executor"]]
               /\ done' = done
       /\ UNCHANGED <<now, config, wrappers, cache, pools, buckets, grants>>

\* get_or_create_executor, line 181: executor = _EXECUTOR_CACHE.get(key)
Lookup(t) ==
    LET fr == th[t]
    IN /\ fr.pc = "get_executor"
       /\ th' = [th EXCEPT ![t] = [fr EXCEPT !.pc = "check_executor",
                                   !.executor = CacheGet(Key(wrappers[fr.fn]))]]
       /\ UNCHANGED <<now, config, wrappers, cache, pools, buckets, done, grants>>

\* executor_class(max_workers=max_workers): both executor classes refuse a
\* worker count below 1 with ValueError.
NewExecutor(kind, max_workers) ==
    [kind |-> kind, max_workers |-> max_workers, shutdown |-> FALSE,
     queue |-> <<>>, running |-> {}]

\* Line 183: whether a pool has to be constructed.
MustCreate(p) == p = 0 \/ pools[p].shutdown

\* A get_or_create_executor that warms the pool it returns on every call.
CheckExecutorAlwaysWarm(t) ==
    LET fr == th[t]
        w == wrappers[fr.fn]
        p == Len(pools) + 1
        next == IF w.prewarm THEN "prewarm_submit" ELSE "rate_limiter"
    IN /\ fr.pc = "check_executor"
       /\ IF fr.executor # 0 /\ pools[fr.executor].kind = "process"
          THEN /\ th' = [th EXCEPT ![t] = [fr EXCEPT !.pc = "done", !.t1 = now,
                             !.outcome = Raised("AttributeError", "None")]]
               /\ UNCHANGED <<pools, cache>>
          ELSE IF MustCreate(fr.executor)
          THEN IF w.workers <= 0
               THEN /\ th' = [th EXCEPT ![t] = [fr EXCEPT !.pc = "done", !.t1 = now,
                                  !.outcome = Raised("ValueError", "None")]]
                    /\ UNCHANGED <<pools, cache>>
               ELSE /\ pools' = Append(pools, NewExecutor(w.exec_type, w.workers))
                    /\ cache' = [x \in DOMAIN cache \cup {Key(w)} |->
                                    IF x = Key(w) THEN p ELSE cache[x]]
                    /\ th' = [th EXCEPT ![t] = [fr EXCEPT !.executor = p, !.pc = next]]
          ELSE /\ th' = [th EXCEPT ![t] = [fr EXCEPT !.pc = next]]
               /\ UNCHANGED <<pools, cache>>
       /\ UNCHANGED <<now, config, wrappers, buckets, done, grants>>

\* get_or_create_executor, lines 183-189: construct and cache a pool unless a
\* live one was found.  No lock is held between line 181 and here.  Line 183
\* reads executor._shutdown, an attribute a ThreadPoolExecutor has and a
\* ProcessPoolExecutor has not (its flag is _shutdown_thread): on a process
\* pool found in the cache the test raises AttributeError.
CheckExecutor(t) ==
    LET fr == th[t]
        w == wrappers[fr.fn]
        p == Len(pools) + 1
    IN /\ fr.pc = "check_executor"
       /\ IF fr.executor # 0 /\ pools[fr.executor].kind = "process"
          THEN /\ th' = [th EXCEPT ![t] = [fr EXCEPT !.pc = "done", !.t1 = now,
                             !.outcome = Raised("AttributeError", "None")]]
               /\ UNCHANGED <<pools, cache>>
          ELSE IF MustCreate(fr.executor)
          THEN IF w.workers <= 0
               THEN /\ th' = [th EXCEPT ![t] = [fr EXCEPT !.pc = "done", !.t1 = now,
                                  !.outcome = Raised("ValueError", "None")]]
                    /\ UNCHANGED <<pools, cache>>
               ELSE /\ pools' = Append(pools, NewExecutor(w.exec_type, w.workers))
                    /\ cache' = [x \in DOMAIN cache \cup {Key(w)} |->
                                    IF x = Key(w) THEN p ELSE cache[x]]
                    /\ th' = [th EXCEPT ![t] =
                          IF w.prewarm
                          THEN [fr EXCEPT !.executor = p, !.pc = "prewarm_submit"]
                          ELSE [fr EXCEPT !.executor = p, !.pc = "rate_limiter"]]
          ELSE /\ th' = [th EXCEPT ![t] = [fr EXCEPT !.pc = "rate_limiter"]]
               /\ UNCHANGED <<pools, cache>>
       /\ UNCHANGED <<now, config, wrappers, buckets, done, grants>>

\* Line 190: executor.submit(lambda: None), once per worker.  submit raises
\* RuntimeError on a pool that has been shut down.  A process pool accepts the
\* lambda but cannot pickle it: the work item never reaches a worker.
PrewarmSubmit(t) ==
    LET fr == th[t]
        p == fr.executor
        k == fr.k + 1
    IN /\ fr.pc = "prewarm_submit"
       /\ IF pools[p].shutdown
          THEN /\ th' = [th EXCEPT ![t] = [fr EXCEPT !.pc = "done", !.t1 = now,
                             !.outcome = Raised("RuntimeError", "None")]]
               /\ pools' = pools
          ELSE /\ pools' = IF pools[p].kind = "process" THEN pools
                          ELSE [pools EXCEPT ![p].queue =
                                   Append(@, Task(p, t, fr.c, k, TRUE, <<>>, now))]
               /\ th' = [th EXCEPT ![t] = [fr EXCEPT !.k = k,
                             !.pc = IF k = pools[p].max_workers THEN "prewarm_wait"
                                    ELSE "prewarm_submit"]]
       /\ UNCHANGED <<now, config, wrappers, cache, buckets, done, grants>>

\* Lines 191-192: f.result() on every warm-up future.  On a process pool the
\* first future holds the pickling error, which leaves get_or_create_executor
\* (line 300 is outside the try block).
PrewarmWait(t) ==
    LET fr == th[t]
    IN /\ fr.pc = "prewarm_wait"
       /\ IF pools[fr.executor].kind = "process"
          THEN th' = [th EXCEPT ![t] = [fr EXCEPT !.pc = "done", !.t1 = now,
                         !.outcome = Raised("PicklingError", "None")]]
          ELSE /\ \A k \in 1..fr.k :
                     \E n \in DOMAIN done :
                        done[n].noop /\ done[n].t = t /\ done[n].c = fr.c /\ done[n].i = k
               /\ th' = [th EXCEPT ![t] = [fr EXCEPT !.pc = "rate_limiter"]]
       /\ UNCHANGED <<now, config, wrappers, cache, pools, buckets, done, grants>>

\* -------------------------------------------------------------- TokenBucket
\* TokenBucket.__init__, lines 122-128.  lock is the owning thread, "" when free.
NewTokenBucket(rl, capacity) ==
    [rate |-> per_second(rl),
     capacity |-> IF capacity # 0 THEN capacity ELSE rl.count,
     tokens |-> IF capacity # 0 THEN capacity ELSE rl.count,
     last_update |-> now, next_allowed |-> now, lock |-> ""]

\* Lines 303-310: the wrapper constructs its limiter, a new TokenBucket on
\* every batch call.
MakeLimiter(t) ==
    LET fr == th[t]
        r == wrappers[fr.fn].rate_limit
        rl == IF r.form = "number" THEN [r EXCEPT !.interval = "second"] ELSE r
    IN /\ fr.pc = "rate_limiter"
       /\ IF r.form \in {"tuple", "number", "RateLimit"}
          THEN /\ buckets' = Append(buckets, NewTokenBucket(rl, 0))
               /\ th' = [th EXCEPT ![t] = LoopHead([fr EXCEPT !.limiter = Len(buckets) + 1])]
          ELSE /\ buckets' = buckets
               /\ th' = [th EXCEPT ![t] = LoopHead(fr)]
       /\ UNCHANGED <<now, config, wrappers, cache, pools, done, grants>>

\* TokenBucket(RateLimit(...)) constructed by the program itself.
Construct(rl) ==
    /\ buckets = <<>>
    /\ buckets' = <<NewTokenBucket(rl, 0)>>
    /\ UNCHANGED <<now, config, wrappers, cache, pools, done, grants, th>>

\* TokenBucket(RateLimit(...), capacity) constructed by the program itself;
\* capacity 0 stands for the default, None.
ConstructCapacity(rl, capacity) ==
    /\ buckets = <<>>
    /\ buckets' = <<NewTokenBucket(rl, capacity)>>
    /\ UNCHANGED <<now, config, wrappers, cache, pools, done, grants, th>>

\* A thread calls get_token or wait_for_token on a bucket it shares.
BucketOp(t, b, op) ==
    LET fr == th[t]
    IN /\ fr.pc = "idle"
       /\ fr.ops < MaxOps
       /\ b \in DOMAIN buckets
       /\ th' = [th EXCEPT ![t] = [fr EXCEPT !.pc = op, !.limiter = b,
                                            !.direct = TRUE, !.got = "none"]]
       /\ UNCHANGED <<now, config, wrappers, cache, pools, buckets, done, grants>>

\* A "with self.lock:" that goes on without the lock when another thread holds it.
LockBarging(t) ==
    LET fr == th[t]
    IN /\ fr.pc \in {"wft_lock", "gt_lock"}
       /\ buckets' = [buckets EXCEPT ![fr.limiter].lock = IF @ = "" THEN t ELSE @]
       /\ th' = [th EXCEPT ![t] = [fr EXCEPT !.pc = IF fr.pc = "wft_lock"
                                                    THEN "wft_check" ELSE "gt_check"]]
       /\ UNCHANGED <<now, config, wrappers, cache, pools, done, grants>>

\* "with self.lock:" (lines 137 and 148).
Lock(t) ==
    LET fr == th[t]
    IN /\ fr.pc \in {"wft_lock", "gt_lock"}
       /\ buckets[fr.limiter].lock = ""
       /\ buckets' = [buckets EXCEPT ![fr.limiter].lock = t]
       /\ th' = [th EXCEPT ![t] = [fr EXCEPT !.pc = IF fr.pc = "wft_lock"
                                                    THEN "wft_check" ELSE "gt_check"]]
       /\ UNCHANGED <<now, config, wrappers, cache, pools, done, grants>>

AdvanceNoPeriod(next_allowed, rate, at) == Max(next_allowed, at)

\* Lines 142 and 151: the pacing state after a permit granted at clock reading at.
Advance(next_allowed, rate, at) ==
    Max(next_allowed + Period(rate), at + Period(rate))

AlwaysAllowed(bk, at) == TRUE

AllowedBurst(bk, at) == at >= bk.next_allowed - (bk.capacity - 1) * Period(bk.rate)

\* Lines 139 and 150: whether a permit may be granted at clock reading at.
Allowed(bk, at) == at >= bk.next_allowed

Grant(t, fr) ==
    [b |-> fr.limiter, at |-> now, t |-> t, c |-> fr.c,
     i |-> IF fr.direct THEN 0 ELSE Len(fr.futures) + 1,
     fn |-> fr.fn, direct |-> fr.direct]

\* Where a bucket operation returns to: the submission loop, or the thread's
\* own code.
Resume(fr, got) ==
    IF fr.direct
    THEN [fr EXCEPT !.pc = "idle", !.ops = @ + 1, !.got = got, !.direct = FALSE]
    ELSE [fr EXCEPT !.pc = "submit"]

\* An exception leaving a bucket operation.
Throw(fr, e) ==
    IF fr.direct
    THEN [fr EXCEPT !.pc = "idle", !.ops = @ + 1, !.got = e, !.direct = FALSE]
    ELSE [fr EXCEPT !.pc = "done", !.t1 = now, !.outcome = Handler(fr, e)]

WaitCheckHolding(t) ==
    LET fr == th[t]
        bk == buckets[fr.limiter]
    IN /\ fr.pc = "wft_check"
       /\ IF Allowed(bk, now)
          THEN /\ buckets' = [buckets EXCEPT ![fr.limiter] =
                     [bk EXCEPT !.lock = "",
                                !.next_allowed = Advance(bk.next_allowed, bk.rate, now)]]
               /\ th' = [th EXCEPT ![t] = Resume(fr, "None")]
               /\ grants' = Append(grants, Grant(t, fr))
          ELSE /\ buckets' = buckets
               /\ th' = [th EXCEPT ![t] = [fr EXCEPT !.pc = "wft_sleep",
                            !.wake = now + Max(MinSleep, bk.next_allowed - now)]]
               /\ grants' = grants
       /\ UNCHANGED <<now, config, wrappers, cache, pools, done>>

\* wait_for_token, lines 149-153, with the lock held; the lock is released on
\* every way out of the with block.
WaitCheck(t) ==
    LET fr == th[t]
        bk == buckets[fr.limiter]
    IN /\ fr.pc = "wft_check"
       /\ IF Allowed(bk, now)
          THEN IF bk.rate = 0
               THEN /\ buckets' = [buckets EXCEPT ![fr.limiter].lock = ""]
                    /\ th' = [th EXCEPT ![t] = Throw(fr, "ZeroDivisionError")]
                    /\ grants' = grants
               ELSE /\ buckets' = [buckets EXCEPT ![fr.limiter] =
                          [bk EXCEPT !.lock = "",
                                     !.next_allowed = Advance(bk.next_allowed, bk.rate, now)]]
                    /\ th' = [th EXCEPT ![t] = Resume(fr, "None")]
                    /\ grants' = Append(grants, Grant(t, fr))
          ELSE /\ buckets' = [buckets EXCEPT ![fr.limiter].lock = ""]
               /\ th' = [th EXCEPT ![t] = [fr EXCEPT !.pc = "wft_sleep",
                            !.wake = now + Max(MinSleep, bk.next_allowed - now)]]
               /\ grants' = grants
       /\ UNCHANGED <<now, config, wrappers, cache, pools, done>>

\* Line 155: time.sleep(max(0.001, wait_time)), then the loop starts over.
WaitSleep(t) ==
    LET fr == th[t]
    IN /\ fr.pc = "wft_sleep"
       /\ now >= fr.wake
       /\ th' = [th EXCEPT ![t] = [fr EXCEPT !.pc = "wft_lock"]]
       /\ UNCHANGED <<now, config, wrappers, cache, pools, buckets, done, grants>>

\* A get_token that, when it refuses, restarts the pacing from the present.
GetCheckRestart(t) ==
    LET fr == th[t]
        bk == buckets[fr.limiter]
    IN /\ fr.pc = "gt_check"
       /\ IF ~Allowed(bk, now)
          THEN /\ buckets' = [buckets EXCEPT ![fr.limiter] =
                     [bk EXCEPT !.lock = "", !.next_allowed = now]]
               /\ th' = [th EXCEPT ![t] = Resume(fr, "False")]
               /\ grants' = grants
          ELSE /\ buckets' = [buckets EXCEPT ![fr.limiter] =
                     [bk EXCEPT !.lock = "",
                                !.next_allowed = Advance(bk.next_allowed, bk.rate, now)]]
               /\ th' = [th EXCEPT ![t] = Resume(fr, "True")]
               /\ grants' = Append(grants, Grant(t, fr))
       /\ UNCHANGED <<now, config, wrappers, cache, pools, done>>

\* get_token, lines 138-143, with the lock held.
GetCheck(t) ==
    LET fr == th[t]
        bk == buckets[fr.limiter]
    IN /\ fr.pc = "gt_check"
       /\ IF ~Allowed(bk, now)
          THEN /\ buckets' = [buckets EXCEPT ![fr.limiter].lock = ""]
               /\ th' = [th EXCEPT ![t] = Resume(fr, "False")]
               /\ grants' = grants
          ELSE IF bk.rate = 0
               THEN /\ buckets' = [buckets EXCEPT ![fr.limiter].lock = ""]
                    /\ th' = [th EXCEPT ![t] = Throw(fr, "ZeroDivisionError")]
                    /\ grants' = grants
               ELSE /\ buckets' = [buckets EXCEPT ![fr.limiter] =
                          [bk EXCEPT !.lock = "",
                                     !.next_allowed = Advance(bk.next_allowed, bk.rate, now)]]
                    /\ th' = [th EXCEPT ![t] = Resume(fr, "True")]
                    /\ grants' = Append(grants, Grant(t, fr))
       /\ UNCHANGED <<now, config, wrappers, cache, pools, done>>

\* --------------------------------------------------------- submit and collect
\* Lines 321-325: partial(func, [receiver,] item, *other_args).
TaskArgs(fr, item) ==
    IF fr.ix = 1 THEN <<fr.args[1], IntVal(item)>> \o other_args(fr)
    ELSE <<IntVal(item)>> \o other_args(fr)

\* Line 327: futures_with_index.append((i, executor.submit(task))), inside the
\* try block; submit raises RuntimeError on a pool that has been shut down.
Submit(t) ==
    LET fr == th[t]
        p == fr.executor
        i == Len(fr.futures) + 1
        task == Task(p, t, fr.c, i, FALSE, TaskArgs(fr, items(fr)[i]), now)
    IN /\ fr.pc = "submit"
       /\ IF pools[p].shutdown
          THEN /\ th' = [th EXCEPT ![t] = [fr EXCEPT !.pc = "done", !.t1 = now,
                             !.outcome = Handler(fr, "RuntimeError")]]
               /\ pools' = pools
          ELSE /\ pools' = [pools EXCEPT ![p].queue = Append(@, task)]
               /\ th' = [th EXCEPT ![t] = LoopHead([fr EXCEPT !.futures = Append(@, task)])]
       /\ UNCHANGED <<now, config, wrappers, cache, buckets, done, grants>>

\* future.done(): the task's invocation has completed.
Resolved(task) == \E n \in DOMAIN done : done[n] = task

StoreReversed(results, i, result) == [results EXCEPT ![Len(results) - i + 1] = result]

\* Line 336: results[i] = result.
Store(results, i, result) == [results EXCEPT ![i] = result]

CollectRetry(t) ==
    LET fr == th[t]
        idx == fr.idx + 1
        task == fr.futures[idx]
        result == func(task.call)
        tried == Cardinality({n \in DOMAIN done : done[n] = task})
        pending == \/ task \in pools[task.pool].running
                   \/ \E n \in DOMAIN pools[task.pool].queue : pools[task.pool].queue[n] = task
    IN /\ fr.pc = "collect"
       /\ fr.idx < Len(fr.futures)
       /\ Resolved(task)
       /\ ~pending
       /\ IF result.exc = "None"
          THEN /\ th' = [th EXCEPT ![t] =
                    [fr EXCEPT !.idx = idx, !.results = Store(fr.results, task.i, result)]]
               /\ pools' = pools
          ELSE IF tried < 2
               THEN /\ pools' = [pools EXCEPT ![task.pool].queue = Append(@, task)]
                    /\ th' = th
               ELSE /\ th' = [th EXCEPT ![t] =
                         [fr EXCEPT !.idx = idx, !.pc = "done", !.t1 = now,
                                    !.outcome = Handler([fr EXCEPT !.idx = idx], result.exc)]]
                    /\ pools' = pools
       /\ UNCHANGED <<now, config, wrappers, cache, buckets, done, grants>>

\* A collection loop that raises the failure of whichever future has failed,
\* as soon as it has.
CollectAsCompleted(t) ==
    LET fr == th[t]
    IN /\ fr.pc = "collect"
       /\ fr.idx < Len(fr.futures)
       /\ \E idx \in (fr.idx + 1)..Len(fr.futures) :
             LET task == fr.futures[idx]
                 result == func(task.call)
             IN /\ Resolved(task)
                /\ idx = fr.idx + 1 \/ result.exc # "None"
                /\ th' = [th EXCEPT ![t] =
                      IF result.exc = "None"
                      THEN [fr EXCEPT !.idx = idx, !.results = Store(fr.results, task.i, result)]
                      ELSE [fr EXCEPT !.idx = idx, !.pc = "done", !.t1 = now,
                                      !.outcome = Handler([fr EXCEPT !.idx = idx], result.exc)]]
       /\ UNCHANGED <<now, config, wrappers, cache, pools, buckets, done, grants>>

\* A collection loop that cancels the call's queued tasks when it meets a
\* failure.
CollectCancel(t) ==
    LET fr == th[t]
        idx == fr.idx + 1
        task == fr.futures[idx]
        result == func(task.call)
    IN /\ fr.pc = "collect"
       /\ fr.idx < Len(fr.futures)
       /\ Resolved(task)
       /\ IF result.exc = "None"
          THEN /\ th' = [th EXCEPT ![t] =
                    [fr EXCEPT !.idx = idx, !.results = Store(fr.results, task.i, result)]]
               /\ pools' = pools
          ELSE /\ th' = [th EXCEPT ![t] =
                    [fr EXCEPT !.idx = idx, !.pc = "done", !.t1 = now,
                               !.outcome = Handler([fr EXCEPT !.idx = idx], result.exc)]]
               /\ pools' = [pools EXCEPT ![task.pool].queue =
                               SelectSeq(@, LAMBDA q : ~(q.t = t /\ q.c = fr.c))]
       /\ UNCHANGED <<now, config, wrappers, cache, buckets, done, grants>>

\* A collection loop that does not wait for the future to resolve.
CollectUnresolved(t) ==
    LET fr == th[t]
        idx == fr.idx + 1
        task == fr.futures[idx]
        result == func(task.call)
    IN /\ fr.pc = "collect"
       /\ fr.idx < Len(fr.futures)
       /\ th' = [th EXCEPT ![t] =
             IF result.exc = "None"
             THEN [fr EXCEPT !.idx = idx, !.results = Store(fr.results, task.i, result)]
             ELSE [fr EXCEPT !.idx = idx, !.pc = "done", !.t1 = now,
                             !.outcome = Handler([fr EXCEPT !.idx = idx], result.exc)]]
       /\ UNCHANGED <<now, config, wrappers, cache, pools, buckets, done, grants>>

\* A collection loop that takes the result of whichever finished task of the
\* pool has the index it waits for.
CollectShared(t) ==
    LET fr == th[t]
        idx == fr.idx + 1
        own == fr.futures[idx]
    IN /\ fr.pc = "collect"
       /\ fr.idx < Len(fr.futures)
       /\ \E n \in DOMAIN done :
             LET task == done[n]
                 result == func(task.call)
             IN /\ task.pool = own.pool /\ task.i = own.i /\ ~task.noop
                /\ th' = [th EXCEPT ![t] =
                      IF result.exc = "None"
                      THEN [fr EXCEPT !.idx = idx,
                                      !.results = Store(fr.results, own.i, result)]
                      ELSE [fr EXCEPT !.idx = idx, !.pc = "done", !.t1 = now,
                                      !.outcome = Handler([fr EXCEPT !.idx = idx],
                                                          result.exc)]]
       /\ UNCHANGED <<now, config, wrappers, cache, pools, buckets, done, grants>>

\* Lines 333-336: future.result() on the next future in submission order; the
\* task's exception is re-raised through the handler.
Collect(t) ==
    LET fr == th[t]
        idx == fr.idx + 1
        task == fr.futures[idx]
        result == func(task.call)
    IN /\ fr.pc = "collect"
       /\ fr.idx < Len(fr.futures)
       /\ Resolved(task)
       /\ th' = [th EXCEPT ![t] =
             IF result.exc = "None"
             THEN [fr EXCEPT !.idx = idx, !.results = Store(fr.results, task.i, result)]
             ELSE [fr EXCEPT !.idx = idx, !.pc = "done", !.t1 = now,
                             !.outcome = Handler([fr EXCEPT !.idx = idx], result.exc)]]
       /\ UNCHANGED <<now, config, wrappers, cache, pools, buckets, done, grants>>

\* A wrapper that shuts its pool down before it returns.
ReturnShutdown(t) ==
    LET fr == th[t]
    IN /\ fr.pc = "collect"
       /\ fr.idx = Len(fr.futures)
       /\ th' = [th EXCEPT ![t] = [fr EXCEPT !.pc = "done", !.t1 = now,
                                            !.outcome = Returned(fr.results)]]
       /\ pools' = [pools EXCEPT ![fr.executor].shutdown = TRUE]
       /\ UNCHANGED <<now, config, wrappers, cache, buckets, done, grants>>

\* Line 343: return results.
Return(t) ==
    LET fr == th[t]
    IN /\ fr.pc = "collect"
       /\ fr.idx = Len(fr.futures)
       /\ th' = [th EXCEPT ![t] = [fr EXCEPT !.pc = "done", !.t1 = now,
                                            !.outcome = Returned(fr.results)]]
       /\ UNCHANGED <<now, config, wrappers, cache, pools, buckets, done, grants>>

\* The caller has taken the call's outcome: the frame and the futures it
\* referenced are released (the warm-up tasks a pool has run stay on record).
Finish(t) ==
    LET fr == th[t]
    IN /\ fr.pc = "done"
       /\ th' = [th EXCEPT ![t] = IdleFrame(fr.c, fr.ops)]
       /\ done' = SelectSeq(done, LAMBDA d : d.noop \/ ~(d.t = t /\ d.c = fr.c))
       /\ UNCHANGED <<now, config, wrappers, cache, pools, buckets, grants>>

\* ------------------------------------------------------------------ the pool
\* A free worker takes the oldest queued work item.
StartTask(p) ==
    /\ pools[p].queue # <<>>
    /\ Cardinality(pools[p].running) < pools[p].max_workers
    /\ pools' = [pools EXCEPT ![p].queue = Tail(@),
                              ![p].running = @ \cup {Head(pools[p].queue)}]
    /\ UNCHANGED <<now, config, wrappers, cache, buckets, done, grants, th>>

\* A worker that drops its work item: the future is never resolved.
FinishTaskLost(p, task) ==
    /\ task \in pools[p].running
    /\ \A t \in Threads : th[t].inside # <<task>>
    /\ pools' = [pools EXCEPT ![p].running = @ \ {task}]
    /\ done' = done
    /\ UNCHANGED <<now, config, wrappers, cache, buckets, grants, th>>

\* A worker finishes its work item: the future holds func's result or exception.
\* The body has returned by then: no call it made is still in progress.
FinishTask(p, task) ==
    /\ task \in pools[p].running
    /\ \A t \in Threads : th[t].inside # <<task>>
    /\ pools' = [pools EXCEPT ![p].running = @ \ {task}]
    /\ done' = Append(done, task)
    /\ UNCHANGED <<now, config, wrappers, cache, buckets, grants, th>>

\* executor.shutdown() by code that holds the pool.
ShutdownPool(p) ==
    /\ ~pools[p].shutdown
    /\ pools' = [pools EXCEPT ![p].shutdown = TRUE]
    /\ UNCHANGED <<now, config, wrappers, cache, buckets, done, grants, th>>

\* The frames that hold a strong reference to pool p: a wrapper frame that is
\* running, or kept alive by the traceback of the exception it raised.
Holders(p) ==
    {t \in Threads : /\ th[t].executor = p
                     /\ \/ th[t].pc \notin {"idle", "done"}
                        \/ th[t].pc = "done" /\ th[t].outcome.kind = "raise"}

\* _EXECUTOR_CACHE is a WeakValueDictionary: the entry of a pool nothing else
\* references goes away.
Reclaim(key) ==
    /\ key \in DOMAIN cache
    /\ Holders(cache[key]) = {}
    /\ cache' = [x \in DOMAIN cache \ {key} |-> cache[x]]
    /\ UNCHANGED <<now, config, wrappers, pools, buckets, done, grants, th>>

\* time.time() advances.
Tick ==
    /\ now < MaxTime
    /\ now' = now + 1
    /\ UNCHANGED <<config, wrappers, cache, pools, buckets, done, grants, th>>


\* time.time() advances, and goes on advancing past MaxTime for as long as a
\* thread sleeps towards a later clock reading.
Elapse ==
    /\ \/ now < MaxTime
       \/ \E t \in Threads : th[t].pc = "wft_sleep" /\ th[t].wake > now
    /\ now' = now + 1
    /\ UNCHANGED <<config, wrappers, cache, pools, buckets, done, grants, th>>

\* time.sleep(wait_time): the clock advances while a thread sleeps towards a
\* later reading. Time that passes while no thread sleeps only refills the
\* buckets further, so this is the clock under which a caller waits longest.
SleepTick ==
    /\ \E t \in Threads : th[t].pc = "wft_sleep" /\ th[t].wake > now
    /\ now' = now + 1
    /\ UNCHANGED <<config, wrappers, cache, pools, buckets, done, grants, th>>
\* ----------------------------------------------------------------- inputs
Lists == SeqsUpTo(ItemValues, MaxLen)
Extra == IntVal(7)

\* Batch calls: a list or a tuple of items, alone or followed by one more argument.
BatchArgs ==
    {<<ListVal(s)>> : s \in Lists} \cup {<<TupleVal(s), Extra>> : s \in Lists}

\* Single-item calls: a number, a string, a bytes value, no argument at all.
SingleArgs ==
    {<<IntVal(x)>> : x \in ItemValues}
        \cup {<<StrVal(<<1, 2>>)>>, <<BytesVal(<<1, 2>>)>>, <<>>, <<IntVal(1), Extra>>}

OneItem == {<<ListVal(<<1>>)>>}

None == <<>>
Some(x) == <<x>>

\* @parallel(max_workers=2), @parallel(max_workers=1, prewarm=True) and
\* parallel(executor_type="process", max_workers=2)(func).
PlainDeco == DecoArgs(Some(2), None, NoRate, None, FALSE)
WarmDeco == DecoArgs(Some(1), None, NoRate, None, TRUE)
ProcessDeco == DecoArgs(Some(2), None, NoRate, Some("process"), FALSE)

\* ------------------------------------------------------------ specifications
\* One call of every input by one thread, beside a one-item batch call by the
\* other thread on the same pool.
Next ==
    \/ \E a \in {PlainDeco, WarmDeco, ProcessDeco} : Decorate("f", a, <<"multiply_by_two">>)
    \/ \E args \in BatchArgs \cup SingleArgs : Call("t1", "f", args)
    \/ \E args \in OneItem : Call("t2", "f", args)
    \/ \E t \in Threads :
          \/ Lookup(t) \/ CheckExecutor(t) \/ PrewarmSubmit(t) \/ PrewarmWait(t)
          \/ MakeLimiter(t) \/ Submit(t) \/ Collect(t) \/ Return(t)
    \/ \E p \in DOMAIN pools : StartTask(p)
    \/ \E p \in DOMAIN pools : \E task \in pools[p].running : FinishTask(p, task)
    \/ \E key \in DOMAIN cache : Reclaim(key)

Spec == Init /\ [][Next]_vars

\* One TokenBucket shared by the threads, which call get_token and
\* wait_for_token on it while the clock advances.
BucketRates == {NumberRate(500), TupleRate(60000, "minute")}

NextBucket ==
    \/ \E rl \in BucketRates : Construct(rl)
    \/ \E t \in Threads : \E op \in {"wft_lock", "gt_lock"} : BucketOp(t, 1, op)
    \/ \E t \in Threads : Lock(t) \/ WaitCheck(t) \/ WaitSleep(t) \/ GetCheck(t)
    \/ Tick

SpecBucket == Init /\ [][NextBucket]_vars

\* A rate-limited function called by one thread, one call after another: @parallel(max_workers=2, rate_limit=500) and
\* @parallel(max_workers=2, rate_limit=RateLimit(60000, "minute")).
RateDecos ==
    {DecoArgs(Some(2), None, NumberRate(500), None, FALSE),
     DecoArgs(Some(2), None, ObjectRate(60000, "minute"), None, FALSE)}

RateArgs == {<<ListVal(s)>> : s \in SeqsUpTo({1}, MaxLen)}

NextRate ==
    \/ \E a \in RateDecos : Decorate("f", a, <<"fetch_with_rate_limit">>)
    \/ \E args \in RateArgs : Call("t1", "f", args)
    \/ \E t \in Threads :
          \/ Lookup(t) \/ CheckExecutor(t) \/ MakeLimiter(t)
          \/ Lock(t) \/ WaitCheck(t) \/ WaitSleep(t)
          \/ Submit(t) \/ Collect(t) \/ Return(t) \/ Finish(t)
    \/ \E p \in DOMAIN pools : StartTask(p)
    \/ \E p \in DOMAIN pools : \E task \in pools[p].running : FinishTask(p, task)
    \/ Tick

SpecRate == Init /\ [][NextRate]_vars

\* Two decorated functions with one key, thread or process, two workers:
\* f with prewarm=True, g without.
SharedDecos(fn) ==
    {DecoArgs(Some(2), None, NoRate, e, fn = "f") : e \in {None, Some("process")}}

\* One thread calls them one call after another; pools are reclaimed when
\* nothing holds them, and may be shut down.
NextSeq ==
    \/ \E fn \in Fns : \E a \in SharedDecos(fn) : Decorate(fn, a, <<"process_item">>)
    \/ \E fn \in Fns : \E args \in OneItem : Call("t1", fn, args)
    \/ \E t \in Threads :
          \/ Lookup(t) \/ CheckExecutor(t) \/ PrewarmSubmit(t) \/ PrewarmWait(t)
          \/ MakeLimiter(t) \/ Submit(t) \/ Collect(t) \/ Return(t) \/ Finish(t)
    \/ \E p \in DOMAIN pools : StartTask(p)
    \/ \E p \in DOMAIN pools : \E task \in pools[p].running : FinishTask(p, task)
    \/ \E p \in DOMAIN pools : ShutdownPool(p)
    \/ \E key \in DOMAIN cache : Reclaim(key)

SpecSeq == Init /\ [][NextSeq]_vars

\* Both threads call them, once each and concurrently; no pool is shut down
\* or reclaimed.
NextPool ==
    \/ \E fn \in Fns : \E a \in SharedDecos(fn) : Decorate(fn, a, <<"process_item">>)
    \/ \E t \in Threads : \E fn \in Fns : \E args \in OneItem : Call(t, fn, args)
    \/ \E t \in Threads :
          \/ Lookup(t) \/ CheckExecutor(t) \/ PrewarmSubmit(t) \/ PrewarmWait(t)
          \/ MakeLimiter(t) \/ Submit(t) \/ Collect(t) \/ Return(t)
    \/ \E p \in DOMAIN pools : StartTask(p)
    \/ \E p \in DOMAIN pools : \E task \in pools[p].running : FinishTask(p, task)

SpecPool == Init /\ [][NextPool]_vars

\* Decorator arguments that are no valid configuration, beside a valid one:
\* max_workers=0, rate_limit=0, rate_limit=-500, rate_limit=500.
BadDecos ==
    {DecoArgs(Some(0), None, NoRate, None, FALSE),
     DecoArgs(Some(2), None, NumberRate(0), None, FALSE),
     DecoArgs(Some(2), None, NumberRate(0 - 500), None, FALSE),
     DecoArgs(Some(2), None, NumberRate(500), None, FALSE)}

CfgArgs == {<<ListVal(s)>> : s \in SeqsUpTo({1}, MaxLen)} \cup {<<IntVal(1)>>}

NextCfg ==
    \/ \E a \in BadDecos : Decorate("f", a, <<"process_item">>)
    \/ \E args \in CfgArgs : Call("t1", "f", args)
    \/ \E t \in Threads :
          \/ Lookup(t) \/ CheckExecutor(t) \/ MakeLimiter(t)
          \/ Lock(t) \/ WaitCheck(t) \/ WaitSleep(t)
          \/ Submit(t) \/ Collect(t) \/ Return(t)
    \/ \E p \in DOMAIN pools : StartTask(p)
    \/ \E p \in DOMAIN pools : \E task \in pools[p].running : FinishTask(p, task)
    \/ Tick

SpecCfg == Init /\ [][NextCfg]_vars


\* One call of a function with and without a rate limit, by one thread, while
\* the clock advances: @parallel(max_workers=2) and
\* @parallel(max_workers=2, rate_limit=(30000, "minute")).
OrderDecos == {PlainDeco, DecoArgs(Some(2), None, TupleRate(30000, "minute"), None, FALSE)}

OrderArgs == {<<ListVal(s)>> : s \in SeqsUpTo({1, 2}, MaxLen)}

NextOrder ==
    \/ \E a \in OrderDecos : Decorate("f", a, <<"fetch_with_rate_limit">>)
    \/ \E args \in OrderArgs : Call("t1", "f", args)
    \/ \E t \in Threads :
          \/ Lookup(t) \/ CheckExecutor(t) \/ MakeLimiter(t)
          \/ Lock(t) \/ WaitCheck(t) \/ WaitSleep(t)
          \/ Submit(t) \/ Collect(t) \/ Return(t)
    \/ \E p \in DOMAIN pools : StartTask(p)
    \/ \E p \in DOMAIN pools : \E task \in pools[p].running : FinishTask(p, task)
    \/ Tick

SpecOrder == Init /\ [][NextOrder]_vars


\* class TextProcessor with the decorated method add_prefix, and a subclass of
\* it; the receivers a method call can have: an instance or the class (for a
\* class method), of the declaring class or of the subclass.
Bases == [c \in {"TextProcessor", "LoudTextProcessor"} |->
             IF c = "LoudTextProcessor" THEN {"TextProcessor"} ELSE {}]

Receivers ==
    {InstanceVal(c) : c \in DOMAIN Bases} \cup {ClassVal(c) : c \in DOMAIN Bases}

MethodArgs ==
    {<<r>> \o a : r \in Receivers, a \in BatchArgs \cup {<<IntVal(1)>>, <<IntVal(3)>>}}

\* One call of the decorated method by one thread.
NextMethod ==
    \/ Decorate("f", PlainDeco, <<"TextProcessor", "add_prefix">>)
    \/ \E args \in MethodArgs : Call("t1", "f", args)
    \/ \E t \in Threads :
          \/ Lookup(t) \/ CheckExecutor(t) \/ MakeLimiter(t)
          \/ Submit(t) \/ Collect(t) \/ Return(t)
    \/ \E p \in DOMAIN pools : StartTask(p)
    \/ \E p \in DOMAIN pools : \E task \in pools[p].running : FinishTask(p, task)

SpecMethod == Init /\ [][NextMethod]_vars


\* f is decorated with every setting given, g with none:
\* @parallel(max_workers=2, batch_size=5, executor_type="process") and @parallel().
DecoOf(fn) ==
    IF fn = "f" THEN DecoArgs(Some(2), Some(5), NoRate, Some("process"), FALSE)
    ELSE DecoArgs(None, None, NoRate, None, FALSE)

\* update_config({"max_workers": 8}), update_config({"max_workers": 0}),
\* update_config({"max_workers": 8, "execution": {"default_executor_type":
\* "thread", "default_batch_size": 50}}) and update_config({"execution":
\* {"default_max_workers": 16, "default_executor_type": "process",
\* "default_batch_size": 50}}); update_config({"error_handling":
\* {"retry_count": 5}}) and update_config({"error_handling": {"retry_delay": 2}}).
ConfigUpdates ==
    {Updates(Some(8), None), Updates(Some(0), None),
     Updates(Some(8), Some(ExecutionUpdate(None, None, Some("thread"), Some(50)))),
     Updates(None, Some(ExecutionUpdate(None, Some(16), Some("process"), Some(50)))),
     ErrorHandlingUpdate([retry_count |-> 5]), ErrorHandlingUpdate([retry_delay |-> 2])}

\* The global configuration is updated and reset, through the module-level
\* handle (manager 1) or through get_instance() (0), before and after f and g
\* are decorated; one thread calls them, one call after another.
NextConfig ==
    \/ \E m \in 0..1 : \E u \in ConfigUpdates : UpdateConfig(m, u)
    \/ \E m \in 0..1 : Reset(m)
    \/ \E fn \in Fns : Decorate(fn, DecoOf(fn), <<"process_with_defaults">>)
    \/ \E fn \in Fns : \E args \in OneItem : Call("t1", fn, args)
    \/ \E t \in Threads :
          \/ Lookup(t) \/ CheckExecutor(t) \/ MakeLimiter(t)
          \/ Submit(t) \/ Collect(t) \/ Return(t) \/ Finish(t)
    \/ \E p \in DOMAIN pools : StartTask(p)
    \/ \E p \in DOMAIN pools : \E task \in pools[p].running : FinishTask(p, task)

SpecConfig == Init /\ [][NextConfig]_vars


\* Two functions decorated alike but for batch_size, 1 for f and 50 for g:
\* @parallel(max_workers=2, batch_size=..., rate_limit=...).
TwinRates == {NoRate, NumberRate(500)}
TwinDeco(fn, r) == DecoArgs(Some(2), Some(IF fn = "f" THEN 1 ELSE 50), r, None, FALSE)
TwinFn(t) == IF t = "t1" THEN "f" ELSE "g"

\* The lists of full length over an item func returns on and one it raises on.
TwinArgs == {<<ListVal(s)>> : s \in {q \in SeqsUpTo({1, 3}, MaxLen) : Len(q) = MaxLen}}

\* What a call shows of itself, whoever makes it: a task without the names of
\* its call and pool, the pool and the limiter of the call, the permits and
\* the completions of the call.
TaskView(x) == [i |-> x.i, noop |-> x.noop, call |-> x.call, at |-> x.at]
TasksView(s) == [n \in DOMAIN s |-> TaskView(s[n])]

PoolView(p) ==
    IF p = 0 THEN <<>>
    ELSE <<[kind |-> pools[p].kind, max_workers |-> pools[p].max_workers,
            shutdown |-> pools[p].shutdown, queue |-> TasksView(pools[p].queue),
            running |-> {TaskView(x) : x \in pools[p].running}]>>

BucketView(b) ==
    IF b = 0 THEN <<>>
    ELSE <<[rate |-> buckets[b].rate, next_allowed |-> buckets[b].next_allowed,
            locked |-> buckets[b].lock # ""]>>

CallView(t) ==
    LET fr == th[t]
        w == wrappers[TwinFn(t)]
    IN [settings |-> [w EXCEPT !.batch = 0, !.warned = FALSE],
        frame |-> [fr EXCEPT !.fn = "", !.executor = 0, !.limiter = 0,
                             !.futures = TasksView(fr.futures)],
        pool |-> PoolView(fr.executor),
        limiter |-> BucketView(fr.limiter),
        permits |-> LET mine == SelectSeq(grants, LAMBDA g : g.t = t)
                    IN [n \in DOMAIN mine |-> [at |-> mine[n].at, i |-> mine[n].i]],
        completed |-> TasksView(SelectSeq(done, LAMBDA d : d.t = t))]

\* A step of the call of thread t: of the thread itself, or of the pool it
\* submits to.
World(t) ==
    \/ \E r \in TwinRates : Decorate(TwinFn(t), TwinDeco(TwinFn(t), r), <<"process_item">>)
    \/ \E args \in TwinArgs : Call(t, TwinFn(t), args)
    \/ Lookup(t) \/ CheckExecutor(t) \/ MakeLimiter(t)
    \/ Lock(t) \/ WaitCheck(t) \/ WaitSleep(t)
    \/ Submit(t) \/ Collect(t) \/ Return(t)
    \/ th[t].executor # 0 /\ StartTask(th[t].executor)
    \/ th[t].executor # 0
       /\ \E task \in pools[th[t].executor].running : FinishTask(th[t].executor, task)

\* The call with batch_size=50 repeats the step the call with batch_size=1
\* has just taken.
CatchUp ==
    /\ CallView("t1") # CallView("t2")
    /\ World("t2")
    /\ CallView("t1")' = CallView("t2")'

Lead ==
    /\ CallView("t1") = CallView("t2")
    /\ (World("t1") \/ Tick)

\* The two calls step by step, each on a pool of its own (both threads look
\* the key up before either creates its pool).
NextTwin == Lead \/ CatchUp

SpecTwin == Init /\ [][NextTwin]_vars


\* One TokenBucket of capacity 1, 3 or the default (the count of its rate
\* limit), shared by the threads, used at once or after it has been idle.
Capacities == {0, 1, 3}

NextBurst ==
    \/ \E rl \in BucketRates : \E capacity \in Capacities : ConstructCapacity(rl, capacity)
    \/ \E t \in Threads : \E op \in {"wft_lock", "gt_lock"} : BucketOp(t, 1, op)
    \/ \E t \in Threads : Lock(t) \/ WaitCheck(t) \/ WaitSleep(t) \/ GetCheck(t)
    \/ Tick

SpecBurst == Init /\ [][NextBurst]_vars


\* One TokenBucket of 500 permits per second under fair scheduling: one thread
\* calls wait_for_token, the other wait_for_token and get_token; a thread
\* that can take a step of a bucket operation takes one, and time advances.
BucketStep(t) == Lock(t) \/ WaitCheck(t) \/ WaitSleep(t) \/ GetCheck(t)

NextWait ==
    \/ Construct(NumberRate(500))
    \/ BucketOp("t1", 1, "wft_lock")
    \/ \E op \in {"wft_lock", "gt_lock"} : BucketOp("t2", 1, op)
    \/ \E t \in Threads : BucketStep(t)
    \/ Elapse

SpecWait ==
    /\ Init /\ [][NextWait]_vars
    /\ \A t \in Threads : WF_vars(BucketStep(t))
    /\ WF_vars(Elapse)

\* Concurrent batch calls under fair scheduling: two caller threads call the
\* same decorated function, so their calls share its pool; the function is
\* either rate limited (500 items a second, two workers) or prewarmed (one
\* worker); threads, workers and the clock all keep running.
CallDecos ==
    {DecoArgs(Some(2), None, NumberRate(500), None, FALSE),
     DecoArgs(Some(1), None, NoRate, None, TRUE)}
CallArgs == {<<ListVal(<<1, 3>>)>>, <<ListVal(<<3, 1>>)>>, <<ListVal(<<>>)>>}

\* One step of a caller thread inside wrapper.
ThreadStep(t) ==
    \/ Lookup(t) \/ CheckExecutor(t) \/ PrewarmSubmit(t) \/ PrewarmWait(t)
    \/ MakeLimiter(t) \/ Lock(t) \/ WaitCheck(t) \/ WaitSleep(t)
    \/ Submit(t) \/ Collect(t) \/ Return(t)

\* One step of a pool worker.
PoolStep ==
    \/ \E p \in DOMAIN pools : StartTask(p)
    \/ \E p \in DOMAIN pools : \E task \in pools[p].running : FinishTask(p, task)

NextCall ==
    \/ \E a \in CallDecos : Decorate("f", a, <<"process_item">>)
    \/ \E args \in CallArgs : Call("t1", "f", args)
    \/ \E args \in OneItem : Call("t2", "f", args)
    \/ \E t \in Threads : ThreadStep(t)
    \/ PoolStep
    \/ SleepTick

SpecCall ==
    /\ Init /\ [][NextCall]_vars
    /\ \A t \in Threads : WF_vars(ThreadStep(t))
    /\ WF_vars(PoolStep)
    /\ WF_vars(SleepTick)

\* The first ConfigManager() / get_instance() calls after a reset, made by two
\* threads at once, while the module-level handle (manager 1) is updated.
NewStep(t) ==
    \/ NewTest(t) \/ NewLock(t) \/ NewAlloc(t) \/ NewInit(t)
    \/ NewUnlock(t) \/ NewReturn(t) \/ GetConfig(t)

NextNew ==
    \/ Reset(1)
    \/ \E u \in ConfigUpdates : UpdateConfig(1, u)
    \/ \E t \in Threads : NewStep(t)

SpecNew == Init /\ [][NextNew]_vars

\* A decorated function whose body calls another decorated function: t1 calls
\* f with a list, and t2 is the worker thread that runs one of f's tasks,
\* whose body calls g.  g has f's cache key or another one.
NestWorkers == {1, 2}
NestArgs == {<<ListVal(<<1>>)>>, <<ListVal(<<1, 2>>)>>}

NextNest ==
    \/ Decorate("f", DecoArgs(Some(1), None, NoRate, None, FALSE), <<"outer">>)
    \/ \E n \in NestWorkers :
          Decorate("g", DecoArgs(Some(n), None, NoRate, None, FALSE), <<"inner">>)
    \/ \E args \in NestArgs : Call("t1", "f", args)
    \/ \E p \in DOMAIN pools : \E task \in {x \in pools[p].running : x.t = "t1"} :
          \E args \in OneItem \cup SingleArgs : TaskCalls("t2", task, "g", args)
    \/ \E t \in Threads : Lookup(t) \/ CheckExecutor(t) \/ MakeLimiter(t)
    \/ \E t \in Threads : Submit(t) \/ Collect(t) \/ Return(t) \/ Finish(t)
    \/ PoolStep

SpecNest == Init /\ [][NextNest]_vars

\* @parallel(max_workers=1, rate_limit=500, prewarm=True): t1 calls f with a
\* single item or a one-item list while t2 makes batch calls of f.
SingleDeco == DecoArgs(Some(1), None, NumberRate(500), None, TRUE)

NextSingle ==
    \/ Decorate("f", SingleDeco, <<"process_item">>)
    \/ \E args \in SingleArgs \cup OneItem : Call("t1", "f", args)
    \/ \E args \in RateArgs : Call("t2", "f", args)
    \/ \E t \in Threads : ThreadStep(t)
    \/ PoolStep
    \/ SleepTick

SpecSingle == Init /\ [][NextSingle]_vars

\* update_config with values the validation accepts, raises to a minimum or
\* refuses: max_workers 8 and 0; timeout 5, 0, -1, "ab" and float("nan");
\* {"execution": {"timeout": -2}}; {"execution": {"default_max_workers": 0,
\* "default_batch_size": -3}}; an error_handling dictionary.
ValidationUpdates ==
    {Updates(Some(8), None), Updates(Some(0), None),
     TimeoutUpdate(IntVal(5)), TimeoutUpdate(IntVal(0)), TimeoutUpdate(IntVal(0 - 1)),
     TimeoutUpdate(StrVal(<<1, 2>>)), TimeoutUpdate(NaN),
     ExecutionTimeoutUpdate(IntVal(0 - 2)),
     Updates(None, Some(ExecutionUpdate(None, Some(0), None, Some(0 - 3)))),
     ErrorHandlingUpdate([retry_count |-> 5])}

\* The global configuration is updated and reset, through the module-level
\* handle (manager 1) or through get_instance() (0).
NextValid ==
    \/ \E m \in 0..1 : \E u \in ValidationUpdates : UpdateConfig(m, u)
    \/ \E m \in 0..1 : Reset(m)

SpecValid == Init /\ [][NextValid]_vars

\* ------------------------------------------------------------------- claims
\* The frames of calls that have ended, by call shape.
IsBatch(fr) == Len(fr.args) > fr.ix /\ IsListOrTuple(fr.args[fr.ix + 1])
Ended(t) == th[t].pc = "done"

\* f(items[i], extra arguments) for a module-level function.
Expected(fr, i) == func(<<IntVal(fr.args[1].v[i])>> \o SubSeq(fr.args, 2, Len(fr.args)))

\* The position in the order of completion of the task of index i of call (t, c).
CompletedAt(t, c, i) ==
    CHOOSE n \in DOMAIN done : done[n].t = t /\ done[n].c = c /\ done[n].i = i /\ ~done[n].noop

\* The call was given a pool: get_or_create_executor did not raise on the
\* _shutdown test of a cached process pool.
GotExecutor(fr) == ~(fr.outcome.kind = "raise" /\ fr.outcome.exc = "AttributeError")

C2_SingleItemWrapped ==
    \A t \in Threads :
        LET fr == th[t]
            mine == {n \in DOMAIN done : done[n].t = t /\ done[n].c = fr.c}
        IN (Ended(t) /\ fr.ix = 0 /\ (fr.args = <<>> \/ fr.args[1].type \notin {"list", "tuple"}))
           => /\ fr.outcome = IF func(fr.args).exc = "None"
                              THEN Returned(<<func(fr.args)>>)
                              ELSE Raised(func(fr.args).exc, "None")
              /\ Cardinality(mine) = 1
              /\ \A n \in mine : done[n].call = fr.args /\ done[n].pool = 0 /\ ~done[n].noop

\* A string has been passed and [func(string)] returned.
C2_Witness ==
    LET fr == th["t1"]
    IN /\ Ended("t1")
       /\ fr.args = <<StrVal(<<1, 2>>)>>
       /\ fr.outcome = Returned(<<func(<<StrVal(<<1, 2>>)>>)>>)

\* C3: a batch call with an item on which func raises never returns a result
\* list: it ends by raising.
C3_FailureRaises ==
    \A t \in Threads :
        LET fr == th[t]
        IN (Ended(t) /\ IsBatch(fr) /\ fr.ix = 0
            /\ \E i \in DOMAIN fr.args[1].v : Expected(fr, i).exc # "None")
           => fr.outcome.kind = "raise"

\* The second of two items failed after the first result had been stored.
C3_Witness ==
    LET fr == th["t1"]
    IN /\ Ended("t1")
       /\ fr.args = <<ListVal(<<1, 3>>)>>
       /\ fr.outcome = Raised("TaskError", "None")
       /\ fr.results[1] = func(<<IntVal(1)>>)

\* Any two permits of one bucket are at least 1/rate apart.
Spaced(b) ==
    \A m, n \in DOMAIN grants :
        (m < n /\ grants[m].b = b /\ grants[n].b = b)
            => grants[n].at - grants[m].at >= Period(buckets[b].rate)

\* A get_token that returns False leaves the bucket as it found it.
RefusalKeepsState ==
    \A t \in Threads :
        (th[t].pc = "gt_check" /\ th'[t].got = "False")
            => /\ buckets' = [buckets EXCEPT ![th[t].limiter].lock = ""]
               /\ grants' = grants

\* C4: on one TokenBucket of positive rate shared by concurrent callers of
\* wait_for_token and get_token, the clock readings of any two granted permits
\* differ by at least 1/rate, and a get_token that returns False changes no
\* state of the bucket.
C4_NoDoubleAdmit ==
    /\ [](\A b \in DOMAIN buckets : buckets[b].rate > 0 => Spaced(b))
    /\ [][RefusalKeepsState]_vars

\* Both threads hold a permit of the shared bucket, exactly one period apart,
\* and a get_token has been refused.
C4_Witness ==
    /\ Len(grants) = 2
    /\ grants[1].t # grants[2].t
    /\ grants[2].at - grants[1].at = Period(buckets[1].rate)
    /\ \E t \in Threads : th[t].got = "False"

\* The clock reading of the permit of item i of call (t, c).
PermitAt(t, c, i) ==
    LET n == CHOOSE n \in DOMAIN grants :
                 grants[n].t = t /\ grants[n].c = c /\ grants[n].i = i /\ ~grants[n].direct
    IN grants[n].at

\* C5: under a rate limit of N per second, item k (0-based) of a batch call is
\* submitted no earlier than k/N after the first item's permit, and a call
\* over M items does not return before (M-1)/N have passed since it started.
C5_PacingLowerBound ==
    \A t \in Threads :
        LET fr == th[t]
            gap == Period(buckets[fr.limiter].rate)
        IN (fr.limiter # 0 /\ ~fr.direct)
           => /\ \A n \in DOMAIN fr.futures :
                    fr.futures[n].at >= PermitAt(t, fr.c, 1) + (n - 1) * gap
              /\ (Ended(t) /\ fr.outcome.kind = "return" /\ fr.futures # <<>>)
                    => fr.t1 - fr.t0 >= (Len(fr.futures) - 1) * gap

\* A call over two items at 500 per second has returned exactly 1/500 s after
\* it started.
C5_Witness ==
    \E t \in Threads :
        /\ Ended(t) /\ th[t].outcome.kind = "return"
        /\ Len(th[t].outcome.results) = 2
        /\ th[t].limiter # 0 /\ buckets[th[t].limiter].rate = 500
        /\ th[t].t1 - th[t].t0 = 2

\* C6: the pacing state is shared by all callers of one decorated function:
\* any two items admitted for it, by the same call or by different calls, are
\* at least 1/rate apart.
C6_SharedPacing ==
    \A m, n \in DOMAIN grants :
        (m < n /\ ~grants[m].direct /\ ~grants[n].direct /\ grants[m].fn = grants[n].fn)
            => grants[n].at - grants[m].at >= Period(buckets[grants[n].b].rate)

PoolKey(p) == <<pools[p].kind, pools[p].max_workers>>
PoolsOf(key) == {p \in DOMAIN pools : PoolKey(p) = key}

\* C7: calls with one (executorKind, workerCount) key use one pool unless that
\* pool was shut down: as long as no pool of a key has been shut down, a
\* single pool has been created for it, also over calls made one after another.
C7_PoolReuse ==
    \A p \in DOMAIN pools :
        (\A q \in PoolsOf(PoolKey(p)) : ~pools[q].shutdown)
            => Cardinality(PoolsOf(PoolKey(p))) = 1

\* C8: under every interleaving of concurrent first uses of one key, one pool
\* is constructed for it and every caller receives that pool.
C8_SingleCreation ==
    /\ \A p \in DOMAIN pools : Cardinality(PoolsOf(PoolKey(p))) = 1
    /\ \A t, u \in Threads :
          (/\ th[t].pc \notin {"idle", "get_executor", "check_executor"}
           /\ th[u].pc \notin {"idle", "get_executor", "check_executor"}
           /\ IsBatch(th[t]) /\ IsBatch(th[u])
           /\ Key(wrappers[th[t].fn]) = Key(wrappers[th[u].fn]))
              => th[t].executor = th[u].executor

\* The warm-up tasks that have completed on pool p.
WarmedUp(p) == Cardinality({n \in DOMAIN done : done[n].noop /\ done[n].pool = p})

\* C9: with prewarm=True, when a batch call has submitted its first real task,
\* workerCount warm-up tasks have completed on the pool it submits to, also
\* when the pool was found in the cache.
C9_WarmBeforeWork ==
    \A t \in Threads :
        (wrappers[th[t].fn].prewarm /\ th[t].futures # <<>>)
            => WarmedUp(th[t].executor) >= wrappers[th[t].fn].workers

\* The outcomes that report an invalid configuration.
ConfigErrors == {"ValueError", "ZeroDivisionError"}

\* C10: an invalid worker count or rate never first surfaces when the
\* decorated function is called, and no TokenBucket has a rate that is not
\* positive.
C10_ConfigErrorsEarly ==
    /\ \A b \in DOMAIN buckets : buckets[b].rate > 0
    /\ \A t \in Threads :
          Ended(t) => /\ th[t].outcome.exc \notin ConfigErrors
                      /\ th[t].outcome.context \notin ConfigErrors


\* The invocations of func for item i of call (t, c): completed, running, and
\* queued for a worker.
Invocations(t, c, i) ==
    LET mine(x) == x.t = t /\ x.c = c /\ x.i = i /\ ~x.noop /\ x.pool # 0
    IN Cardinality({n \in DOMAIN done : mine(done[n])})
       + Cardinality({<<p, x>> \in UNION {{<<q, y>> : y \in pools[q].running} : q \in DOMAIN pools} :
                         mine(x)})
       + Cardinality({<<p, n>> \in UNION {{<<q, k>> : k \in DOMAIN pools[q].queue} : q \in DOMAIN pools} :
                         mine(pools[p].queue[n])})

\* C11: within one batch call func is invoked at most once per item, also when
\* an invocation has failed, and exactly once per item when the call returns.
C11_NoRetry ==
    \A t \in Threads :
        LET fr == th[t]
        IN IsBatch(fr) =>
              /\ \A i \in DOMAIN items(fr) : Invocations(t, fr.c, i) <= 1
              /\ (Ended(t) /\ fr.outcome.kind = "return")
                    => \A i \in DOMAIN items(fr) :
                          Cardinality({n \in DOMAIN done :
                              /\ done[n].t = t /\ done[n].c = fr.c
                              /\ done[n].i = i /\ ~done[n].noop}) = 1

\* The first of two items has failed and the call has raised; each of the two
\* items has been invoked once and both invocations are over.
C11_Witness ==
    LET fr == th["t1"]
    IN /\ Ended("t1") /\ fr.outcome = Raised("TaskError", "None")
       /\ fr.args = <<ListVal(<<3, 1>>)>>
       /\ \A i \in 1..2 : Invocations("t1", fr.c, i) = 1
       /\ \A i \in 1..2 : Resolved(fr.futures[i])

\* A permit of item i of call (t, c) is on record.
Permitted(t, c, i) ==
    \E g \in DOMAIN grants :
        grants[g].t = t /\ grants[g].c = c /\ grants[g].i = i /\ ~grants[g].direct

\* The submissions of each call so far are its items 1..n in order, the pool's
\* queue holds them in that order, and under a rate limit each was submitted
\* no earlier than its permit.
InSubmissionOrder ==
    /\ \A t \in Threads :
          LET fr == th[t]
          IN /\ \A n \in DOMAIN fr.futures :
                   /\ fr.futures[n].i = n
                   /\ fr.futures[n].call = TaskArgs(fr, items(fr)[n])
                   /\ (fr.limiter # 0) =>
                         /\ Permitted(t, fr.c, n)
                         /\ PermitAt(t, fr.c, n) <= fr.futures[n].at
             /\ \A m, n \in DOMAIN fr.futures :
                   m < n => fr.futures[m].at <= fr.futures[n].at
    /\ \A p \in DOMAIN pools :
          \A m, n \in DOMAIN pools[p].queue :
             LET x == pools[p].queue[m]
                 y == pools[p].queue[n]
             IN (m < n /\ x.t = y.t /\ x.c = y.c /\ ~x.noop /\ ~y.noop) => x.i < y.i

\* A step that submits a task submits the next item of the call, whose permit
\* has been granted before the step when the call has a limiter.
SubmitsNextItem ==
    \A t \in Threads :
        Len(th'[t].futures) > Len(th[t].futures)
            => /\ Len(th'[t].futures) = Len(th[t].futures) + 1
               /\ SubSeq(th'[t].futures, 1, Len(th[t].futures)) = th[t].futures
               /\ (th[t].limiter # 0) => Permitted(t, th[t].c, Len(th[t].futures) + 1)

\* C12: within one batch call item i is submitted to the pool before item
\* i+1, and under a rate limit each item is submitted only after its own
\* permit has been granted.
C12_SubmissionOrder ==
    /\ []InSubmissionOrder
    /\ [][SubmitsNextItem]_vars

\* Under a rate limit both items have been submitted in order, each after its
\* permit, and the second has finished while the first is still running.
C12_Witness ==
    LET fr == th["t1"]
    IN /\ fr.limiter # 0 /\ Len(fr.futures) = 2
       /\ PermitAt("t1", fr.c, 1) < PermitAt("t1", fr.c, 2)
       /\ fr.futures[2].at >= PermitAt("t1", fr.c, 2)
       /\ Resolved(fr.futures[2])
       /\ fr.futures[1] \in pools[fr.executor].running

\* isinstance(x, cls), or x is cls or a subclass of it.
IsReceiverOf(x, cls) ==
    LET mro(c) == IF c \in DOMAIN Bases THEN {c} \cup Bases[c] ELSE {c}
    IN IF x.type = "type" THEN cls \in mro(x.name) ELSE cls \in mro(x.type)

\* method(receiver, items[i], extra arguments).
MethodExpected(fr, i) ==
    func(<<fr.args[1], IntVal(fr.args[2].v[i])>> \o SubSeq(fr.args, 3, Len(fr.args)))

\* C13: a decorated method called on a receiver that is an instance of the
\* declaring class or of a subclass, or one of these classes, takes its items
\* from the argument after the receiver: a list gives the list of
\* method(receiver, items[i], ...), a single value gives
\* [method(receiver, value, ...)].
C13_ReceiverOffset ==
    \A t \in Threads :
        LET fr == th[t]
            w == wrappers[fr.fn]
        IN (/\ Ended(t) /\ Len(w.qualname) = 2 /\ Len(fr.args) >= 2
            /\ IsReceiverOf(fr.args[1], w.qualname[1]))
           => IF IsListOrTuple(fr.args[2])
              THEN (\A i \in DOMAIN fr.args[2].v : MethodExpected(fr, i).exc = "None")
                      => fr.outcome =
                            Returned([i \in DOMAIN fr.args[2].v |-> MethodExpected(fr, i)])
              ELSE fr.outcome = IF func(fr.args).exc = "None"
                                THEN Returned(<<func(fr.args)>>)
                                ELSE Raised(func(fr.args).exc, "None")

\* The step decorates fn.
Decorates(fn) == ~wrappers[fn].decorated /\ wrappers'[fn].decorated

\* A decoration resolves each setting to the decorator's argument where one is
\* given and to the default of the configuration then in force otherwise.
ResolvedAtDecoration ==
    \A fn \in Fns :
        Decorates(fn) =>
            LET a == DecoOf(fn)
                d == get_config(config).execution
                w == wrappers'[fn]
            IN /\ w.workers = IF a.max_workers # <<>> THEN a.max_workers[1]
                              ELSE d.default_max_workers
               /\ w.batch = IF a.batch_size # <<>> THEN a.batch_size[1]
                            ELSE d.default_batch_size
               /\ w.exec_type = IF a.executor_type # <<>> THEN a.executor_type[1]
                                ELSE d.default_executor_type

\* No step changes the settings of a decorated function.
SnapshotKept ==
    \A fn \in Fns : wrappers[fn].decorated => wrappers'[fn] = wrappers[fn]

\* A batch call runs on a pool of the kind and size of the snapshot.
CallsUseSnapshot ==
    \A t \in Threads :
        (th[t].executor # 0 /\ th[t].pc # "check_executor")
            => /\ pools[th[t].executor].max_workers = wrappers[th[t].fn].workers
               /\ pools[th[t].executor].kind = wrappers[th[t].fn].exec_type

C15_GlobalWorkers ==
    [][\A fn \in Fns :
          (Decorates(fn) /\ DecoOf(fn).max_workers = <<>>)
              => wrappers'[fn].workers = get_config(config).max_workers]_vars

Outstanding(t) == {n \in DOMAIN th[t].futures : ~Resolved(th[t].futures[n])}

\* C17: during a batch call of a function decorated with batch_size=B, never
\* more than B of the call's items are submitted and not yet completed.
C17_BatchBound ==
    \A t \in Threads :
        wrappers[th[t].fn].decorated
            => Cardinality(Outstanding(t)) <= wrappers[th[t].fn].batch

\* The permits of bucket b, in the order granted.
PermitsOf(b) == SelectSeq(grants, LAMBDA g : g.b = b)

\* Any k permits of a bucket span at least k-1 periods: no two are granted at
\* one clock reading, however long the bucket was idle before.
BurstOfOne ==
    \A b \in DOMAIN buckets :
        LET ps == PermitsOf(b)
        IN \A m, n \in DOMAIN ps :
              m < n => ps[n].at - ps[m].at >= (n - m) * Period(buckets[b].rate)

\* capacity and tokens are never written, and a step that decides on a permit
\* grants it exactly when the clock has reached next_allowed.
CapacityInert ==
    /\ \A b \in DOMAIN buckets :
          /\ buckets'[b].capacity = buckets[b].capacity
          /\ buckets'[b].tokens = buckets[b].tokens
    /\ \A t \in Threads :
          (th[t].pc \in {"wft_check", "gt_check"} /\ th'[t].pc # th[t].pc)
              => (grants' # grants <=> now >= buckets[th[t].limiter].next_allowed)

Waiting(t, k) ==
    th[t].direct /\ th[t].ops = k /\ th[t].pc \in {"wft_lock", "wft_check", "wft_sleep"}

\* Thread t has returned from its k-th bucket operation, a wait_for_token
\* (which returns None), and holds the permit granted last.
Admitted(t, k) ==
    /\ th[t].pc = "idle" /\ th[t].ops = k + 1 /\ th[t].got = "None"
    /\ grants # <<>> /\ grants[Len(grants)].t = t

\* C20: on a bucket of positive rate, with time advancing and fair scheduling,
\* every wait_for_token call of every thread returns with a permit.
C20_WaitReturns ==
    \A t \in Threads : \A k \in 0..(MaxOps - 1) : Waiting(t, k) ~> Admitted(t, k)

\* A thread has slept inside wait_for_token while the other held a permit, and
\* has returned with its own permit later.
C20_Witness ==
    \E t \in Threads :
        /\ th[t].pc = "idle" /\ th[t].got = "None" /\ th[t].wake > 0
        /\ Len(grants) >= 2
        /\ grants[Len(grants)].t = t /\ grants[1].t # t
        /\ grants[Len(grants)].at >= th[t].wake

\* C19: under fair scheduling of the caller threads and the pool workers, with
\* every invocation of func terminating, a positive rate and an advancing clock,
\* every batch call that has been entered returns its results or raises, also
\* when two calls run concurrently and share one pool.
InCall(t) == th[t].pc \notin {"idle", "done"}
C19_CallEnds == \A t \in Threads : InCall(t) ~> Ended(t)

\* Both calls have ended on one shared pool, the item of t2 ran between the two
\* items of t1, and t1 slept for its second permit.
C19_Witness ==
    /\ Ended("t1") /\ Ended("t2")
    /\ th["t1"].executor # 0 /\ th["t1"].executor = th["t2"].executor
    /\ th["t1"].t1 > th["t1"].t0
    /\ \E i, j, k \in DOMAIN done :
          /\ i < j /\ j < k
          /\ done[i].t = "t1" /\ done[j].t = "t2" /\ done[k].t = "t1"
          /\ ~done[i].noop /\ ~done[j].noop /\ ~done[k].noop

\* C21: every instance handed to a thread by ConfigManager() / get_instance()
\* has had its configuration assigned, so that get_config() on it returns a
\* configuration and not None.
C21_InitialisedInstance ==
    \A t \in Threads :
        th[t].pc = "has_instance" /\ th[t].manager # 0
            => th[t].manager \notin config.unset

\* C22: the module-level handle pyarallel.config (manager 1, created at import)
\* and ConfigManager.get_instance() are the same manager after any sequence of
\* update_config and reset calls, so get_instance().get_config() is the
\* configuration held by pyarallel.config.
C22_OneGlobalState ==
    /\ get_instance(config).instance = 1
    /\ get_config(config) = config.managers[1]

\* C23: update_config(u) is a partial merge.  Every field named in u, at the
\* top level or inside a nested dictionary, has its new value afterwards (a
\* max_workers below 1 counting as 1), and every other field keeps the value it
\* had.
NamedOrKept(named, old) == IF named # <<>> THEN named[1] ELSE old
PartialMerge(old, u, new) ==
    LET ex == IF u.execution = <<>> THEN ExecutionUpdate(None, None, None, None)
              ELSE u.execution[1]
        mw == IF ex.max_workers # <<>> THEN ex.max_workers ELSE u.max_workers
        eh == IF u.error_handling = <<>> THEN <<>> ELSE u.error_handling[1]
    IN /\ new.max_workers = Max(NamedOrKept(mw, old.max_workers), 1)
       /\ new.timeout = old.timeout
       /\ new.execution.default_max_workers =
              NamedOrKept(ex.default_max_workers, old.execution.default_max_workers)
       /\ new.execution.default_executor_type =
              NamedOrKept(ex.default_executor_type, old.execution.default_executor_type)
       /\ new.execution.default_batch_size =
              NamedOrKept(ex.default_batch_size, old.execution.default_batch_size)
       /\ DOMAIN new.error_handling = DOMAIN old.error_handling \cup DOMAIN eh
       /\ \A k \in DOMAIN new.error_handling :
              new.error_handling[k] = IF k \in DOMAIN eh THEN eh[k]
                                      ELSE old.error_handling[k]
C23_PartialMerge ==
    [][\A m \in 0..1 : \A u \in ConfigUpdates :
          UpdateConfig(m, u)
              => LET cm == get_instance(config)
                     h == IF m = 0 THEN cm.instance ELSE m
                 IN PartialMerge(cm.managers[h], u, config'.managers[h])]_vars

\* C24: an update passed under the nested "execution" key takes effect: after
\* update_config({"execution": {"default_max_workers": 16,
\* "default_executor_type": "process", "default_batch_size": 50}}) the manager's
\* get_config().execution reports these three values.
C24_ExecutionUpdate ==
    [][\A m \in 0..1 :
          UpdateConfig(m, Updates(None, Some(ExecutionUpdate(None, Some(16), Some("process"), Some(50)))))
              => LET h == IF m = 0 THEN get_instance(config).instance ELSE m
                     execution == config'.managers[h].execution
                 IN /\ execution.default_max_workers = 16
                    /\ execution.default_executor_type = "process"
                    /\ execution.default_batch_size = 50]_vars

\* C25: a batch call that raises the failure of a task raises that of the
\* lowest-index item on which func fails, whichever task failed first in time,
\* and only once every task of a lower or equal index has completed.
FailingItems(fr) ==
    {i \in DOMAIN items(fr) : func(TaskArgs(fr, items(fr)[i])).exc # "None"}
C25_FirstFailureInOrder ==
    \A t \in Threads :
        LET fr == th[t]
        IN (Ended(t) /\ IsBatch(fr) /\ fr.outcome.kind = "raise" /\ fr.idx > 0)
           => /\ fr.futures[fr.idx].i \in FailingItems(fr)
              /\ \A i \in FailingItems(fr) : fr.futures[fr.idx].i <= i
              /\ fr.outcome.exc = func(fr.futures[fr.idx].call).exc
              /\ \A j \in 1..fr.idx : Resolved(fr.futures[j])

\* Both items of a list failed, the second one first in time, and the call has
\* raised on the first.
C25_Witness ==
    LET fr == th["t1"]
    IN /\ Ended("t1") /\ fr.outcome.kind = "raise"
       /\ fr.args = <<ListVal(<<3, 3>>)>>
       /\ fr.idx = 1
       /\ Resolved(fr.futures[2])
       /\ CompletedAt("t1", fr.c, 2) < CompletedAt("t1", fr.c, 1)

\* C26: a batch call that has raised cancels nothing: every task it had
\* submitted is still run to completion by the pool, also after the caller has
\* seen the exception.
Raising(t) == Ended(t) /\ IsBatch(th[t]) /\ th[t].outcome.kind = "raise"
AllRun(t) == \A j \in DOMAIN th[t].futures : Resolved(th[t].futures[j])
C26_NoCancellation == \A t \in Threads : Raising(t) ~> AllRun(t)

\* The call has raised on its first item while the task of its second item is
\* still waiting in the pool's queue.
C26_Witness ==
    LET fr == th["t1"]
    IN /\ Raising("t1") /\ fr.idx = 1 /\ Len(fr.futures) = 2
       /\ \E n \in DOMAIN pools[fr.executor].queue :
             pools[fr.executor].queue[n] = fr.futures[2]

\* C27: the exception a batch call raises is the original failure (of a task,
\* of the rate limiter, or of a submit refused by a pool that was shut down),
\* never an error raised by the wrapper's own handler with the original as its
\* context.
C27_OriginalException ==
    \A t \in Threads :
        LET fr == th[t]
        IN (Ended(t) /\ IsBatch(fr) /\ fr.outcome.kind = "raise")
           => fr.outcome.exc # "UnboundLocalError" /\ fr.outcome.context = "None"

\* C28: next_allowed of a bucket with a positive rate never decreases; a step
\* that grants a permit moves it to max(next_allowed, now) + 1/rate, and every
\* other step (a refused get_token, a wait_for_token that goes to sleep, the
\* taking of the lock, the clock) leaves it as it is.
GrantedOn(b) ==
    /\ Len(grants') = Len(grants) + 1
    /\ grants'[Len(grants')].b = b
C28_NextAllowedMonotonic ==
    [][\A b \in DOMAIN buckets :
          buckets[b].rate > 0
              => /\ buckets'[b].next_allowed >= buckets[b].next_allowed
                 /\ buckets'[b].next_allowed =
                        IF GrantedOn(b)
                        THEN Max(buckets[b].next_allowed, now) + Period(buckets[b].rate)
                        ELSE buckets[b].next_allowed]_vars

\* Two permits have been granted to different threads at different clock
\* readings, a get_token has been refused, and next_allowed is one period
\* after the later grant.
C28_Witness ==
    /\ Len(grants) = 2
    /\ grants[1].t # grants[2].t /\ grants[1].at < grants[2].at
    /\ \E t \in Threads : th[t].got = "False"
    /\ buckets[1].rate > 0
    /\ buckets[1].next_allowed = grants[2].at + Period(buckets[1].rate)

\* C29: next_allowed is read and written only by the thread that holds the
\* bucket's lock, one thread at a time, and a thread that sleeps in
\* wait_for_token does not hold it: the lock is held only between taking it
\* and the end of the check, so a permit can be taken while others sleep.
InCheck(t, b) == th[t].pc \in {"wft_check", "gt_check"} /\ th[t].limiter = b
C29_LockDiscipline ==
    \A b \in DOMAIN buckets :
        /\ \A t \in Threads : InCheck(t, b) <=> buckets[b].lock = t
        /\ \A t \in Threads : th[t].pc = "wft_sleep" => buckets[b].lock # t

\* t1 sleeps in wait_for_token, the lock is free, and t2 has taken a permit at
\* or after the clock reading t1 sleeps towards.
C29_Witness ==
    /\ th["t1"].pc = "wft_sleep"
    /\ buckets[1].lock = ""
    /\ grants # <<>>
    /\ grants[Len(grants)].t = "t2"
    /\ grants[Len(grants)].at >= th["t1"].wake

\* C30: the result list of a batch call is created with one empty position
\* per input item; a position is written only while it is empty, by the step
\* that observes the future of the task submitted for that index, after that
\* task has completed and with that task's result; a list that is returned has
\* every position written.
WrittenOnce(fr, next) ==
    \A n \in DOMAIN fr.results :
        next.results[n] # fr.results[n]
            => /\ fr.results[n] = NoResult
               /\ next.idx = fr.idx + 1
               /\ fr.futures[next.idx].i = n
               /\ Resolved(fr.futures[next.idx])
               /\ next.results[n] = func(TaskArgs(fr, items(fr)[n]))
C30_ResultSlots ==
    [][\A t \in Threads :
          /\ th'[t].pc = "collect"
                => /\ Len(th'[t].results) = Len(items(th'[t]))
                   /\ th[t].pc # "collect" => \A n \in DOMAIN th'[t].results :
                                                  th'[t].results[n] = NoResult
          /\ th[t].pc = "collect" => WrittenOnce(th[t], th'[t])
          /\ (th[t].pc = "collect" /\ th'[t].pc = "done" /\ th'[t].outcome.kind = "return")
                => /\ Len(th'[t].outcome.results) = Len(items(th[t]))
                   /\ \A n \in DOMAIN th'[t].outcome.results :
                          th'[t].outcome.results[n] # NoResult]_vars

\* The first position of a two-item call has been written and the second has
\* not, although the second task has completed: its future has not been
\* observed yet.
C30_Witness ==
    LET fr == th["t1"]
    IN /\ fr.pc = "collect" /\ fr.idx = 1 /\ Len(fr.results) = 2
       /\ fr.results[1] # NoResult /\ fr.results[2] = NoResult
       /\ Resolved(fr.futures[2])

\* C31: a get_or_create_executor call that constructs a pool with prewarm set
\* submits one no-op task per worker and returns only when all of them have
\* completed; a call that finds a live pool in the cache, or has prewarm
\* unset, submits none and returns at once.
WarmUpsDone(t) ==
    \A k \in 1..th[t].k :
        \E n \in DOMAIN done :
            done[n].noop /\ done[n].t = t /\ done[n].c = th[t].c /\ done[n].i = k
C31_PrewarmOnCreation ==
    [][\A t \in Threads :
          LET fr == th[t]
              w == wrappers[fr.fn]
          IN /\ (fr.pc = "check_executor" /\ th'[t].pc # "check_executor")
                   => IF MustCreate(fr.executor) /\ w.prewarm /\ w.workers > 0
                      THEN th'[t].pc = "prewarm_submit" /\ th'[t].k = 0
                      ELSE th'[t].pc \in {"rate_limiter", "done"} /\ th'[t].k = 0
             /\ th'[t].k # fr.k => fr.pc = "prewarm_submit" \/ th'[t].k = 0
             /\ th'[t].pc = "rate_limiter"
                   => \/ fr.pc = "rate_limiter"
                      \/ fr.pc = "check_executor"
                      \/ /\ fr.pc = "prewarm_wait"
                         /\ fr.k = w.workers
                         /\ WarmUpsDone(t)]_vars

\* t1 has constructed the pool, warmed it with two no-op tasks and returned;
\* t2, with prewarm set as well, has found that pool in the cache and has
\* returned without submitting a no-op task.
C31_Witness ==
    /\ Ended("t1") /\ Ended("t2")
    /\ th["t1"].outcome.kind = "return" /\ th["t2"].outcome.kind = "return"
    /\ wrappers[th["t1"].fn].prewarm /\ wrappers[th["t2"].fn].prewarm
    /\ th["t1"].executor = th["t2"].executor
    /\ th["t1"].k = 2 /\ th["t2"].k = 0
    /\ WarmedUp(th["t1"].executor) = 2

\* C32: a get_or_create_executor call whose lookup found no pool, or a pool
\* that has been shut down, constructs a new pool with workerCount workers,
\* stores it under the key and returns it; it never returns the pool that was
\* shut down.
C32_FreshPoolAfterShutdown ==
    [][\A t \in Threads :
          LET fr == th[t]
              w == wrappers[fr.fn]
              p == Len(pools) + 1
          IN (fr.pc = "check_executor" /\ th'[t].pc # "check_executor"
              /\ w.workers > 0
              /\ (fr.executor = 0 \/ pools[fr.executor].shutdown))
                 => /\ Len(pools') = p
                    /\ pools'[p] = NewExecutor(w.exec_type, w.workers)
                    /\ Key(w) \in DOMAIN cache' /\ cache'[Key(w)] = p
                    /\ th'[t].executor = p
                    /\ th'[t].pc \in {"prewarm_submit", "rate_limiter"}]_vars

\* C33: a batch call does not own its pool: the step on which a call returns
\* or raises leaves every pool as it is (not shut down, its queue and its
\* running tasks untouched), and no step shuts a pool down.
C33_PoolNotOwned ==
    [][/\ \A t \in Threads :
             (th[t].pc # "done" /\ th'[t].pc = "done") => pools' = pools
       /\ \A p \in DOMAIN pools : pools'[p].shutdown = pools[p].shutdown]_vars

\* t1's call has raised while a task of t2's call runs on the same pool,
\* which is still open.
C33_Witness ==
    LET p == th["t1"].executor
    IN /\ Ended("t1") /\ IsBatch(th["t1"]) /\ th["t1"].outcome.kind = "raise"
       /\ th["t1"].idx > 0
       /\ th["t2"].pc = "collect" /\ th["t2"].executor = p
       /\ th["t2"].futures[1] \in pools[p].running
       /\ ~pools[p].shutdown

\* C34: the thread that has submitted a batch and blocks on its futures is
\* never a worker of the pool the batch was submitted to, also when the call
\* was made from inside a task of a function with the same cache key.
C34_CallerNotWorker ==
    \A t \in Threads :
        (th[t].pc = "collect" /\ th[t].inside # <<>>)
            => th[t].inside[1].pool # th[t].executor

\* C35: a call classified as a single item ends on the step it is made on,
\* func being run by the calling thread, and that step leaves the pool cache,
\* the pools (no pool created, no warm-up or task submitted), the token
\* buckets and the permits granted as they were, also under a rate limit.
C35_SinglePathFrame ==
    [][\A t \in Threads :
          (th[t].pc = "idle" /\ th'[t].pc # "idle" /\ ~IsBatch(th'[t]))
             => /\ th'[t].pc = "done"
                /\ th'[t].executor = 0 /\ th'[t].limiter = 0
                /\ cache' = cache /\ pools' = pools
                /\ buckets' = buckets /\ grants' = grants
                /\ Len(done') = Len(done) + 1
                /\ LET x == done'[Len(done')]
                   IN x.pool = 0 /\ x.t = t /\ x.c = th'[t].c /\ x.i = 0]_vars

\* A single-item call of a rate-limited, pre-warming function has returned at
\* the clock reading it was made at, holding no pool and no limiter, while
\* the other thread's batch call sleeps towards its next permit.
C35_Witness ==
    /\ Ended("t1") /\ ~IsBatch(th["t1"]) /\ th["t1"].outcome.kind = "return"
    /\ wrappers["f"].rate_limit # NoRate /\ wrappers["f"].prewarm
    /\ th["t1"].executor = 0 /\ th["t1"].limiter = 0
    /\ th["t2"].pc = "wft_sleep" /\ th["t2"].wake > th["t1"].t1
    /\ th["t1"].t0 = now /\ th["t1"].t1 = now


\* C36: within one batch call the collection loop starts only after every
\* item has been submitted: a call that awaits a result, has stored one, or
\* has been ended by a failure of one of its tasks has submitted all M items.
C36_SubmitBeforeCollect ==
    \A t \in Threads :
        LET fr == th[t]
        IN (/\ fr.pc \notin {"idle"} /\ IsBatch(fr)
            /\ \/ fr.pc = "collect" \/ fr.idx > 0 \/ fr.results # <<>>
               \/ "TaskError" \in {fr.outcome.exc, fr.outcome.context})
              => Len(fr.futures) = Len(items(fr))

\* The first task of t1's call has already failed, and t1 is about to submit
\* the second item.
C36_Witness ==
    LET fr == th["t1"]
    IN /\ fr.pc = "submit" /\ Len(fr.futures) = 1 /\ Len(items(fr)) = 2
       /\ Resolved(fr.futures[1])
       /\ func(fr.futures[1].call).exc = "TaskError"

\* C37: concurrent batch calls that share a pool are isolated: the futures a
\* call holds are those of its own tasks, one per item and in item order;
\* every result it has stored or returns is the result of its own task for
\* that index; and it raises a task's exception only when one of its own
\* items fails.
OwnFutures(t) ==
    \A j \in DOMAIN th[t].futures :
        LET x == th[t].futures[j]
        IN x.t = t /\ x.c = th[t].c /\ x.i = j /\ ~x.noop

OwnResults(fr, rs) ==
    \A i \in DOMAIN rs :
        rs[i] # NoResult => rs[i] = func(fr.futures[i].call) /\ rs[i] = Expected(fr, i)

C37_Isolation ==
    \A t \in Threads :
        LET fr == th[t]
        IN (fr.pc # "idle" /\ IsBatch(fr))
              => /\ OwnFutures(t)
                 /\ OwnResults(fr, fr.results)
                 /\ OwnResults(fr, fr.outcome.results)
                 /\ "TaskError" \in {fr.outcome.exc, fr.outcome.context}
                       => \E i \in DOMAIN items(fr) : items(fr)[i] \in Raises

\* Both calls ran on one pool, the task of t2's call finishing between two
\* tasks of t1's call; t1's call raised its task's exception, t2's returned.
C37_Witness ==
    /\ Ended("t1") /\ Ended("t2")
    /\ th["t1"].executor # 0 /\ th["t1"].executor = th["t2"].executor
    /\ th["t1"].outcome.kind = "raise" /\ th["t1"].outcome.exc = "TaskError"
    /\ th["t2"].outcome.kind = "return" /\ Len(th["t2"].outcome.results) = 1
    /\ \E a, b, c \in DOMAIN done :
          /\ a < b /\ b < c
          /\ done[a] = th["t1"].futures[1]
          /\ done[b] = th["t2"].futures[1]
          /\ done[c] = th["t1"].futures[2]

\* C38: after any sequence of update_config calls, also ones that raise, every
\* manager's configuration has max_workers >= 1, timeout >= 0,
\* execution.default_max_workers >= 1 and execution.default_batch_size >= 1,
\* and its top-level max_workers and timeout equal execution.max_workers and
\* execution.timeout.  The comparisons are Python's: float("nan") is neither
\* >= 0 nor equal to itself.
FloatGe0(x) == x.name # "nan" /\ x.v[1] >= 0
FloatEq(x, y) == x.name # "nan" /\ y.name # "nan" /\ x.v = y.v
ValidConfig(c) ==
    /\ c.max_workers >= 1
    /\ FloatGe0(c.timeout)
    /\ c.execution.default_max_workers >= 1
    /\ c.execution.default_batch_size >= 1
    /\ c.max_workers = c.execution.max_workers
    /\ FloatEq(c.timeout, c.execution.timeout)

C38_ValidConfig ==
    \A h \in DOMAIN config.managers :
        h \notin config.unset => ValidConfig(config.managers[h])
====
